---- MODULE Spec2Model ----
(***************************************************************************)
(* Model of the notes JSON-RPC 2.0 server (notes-server/internal/server):  *)
(* the transport loop Server.Run, the dispatcher handleRequest, the        *)
(* per-method handlers and the capability registry over the note map.      *)
(*                                                                         *)
(* Text is modelled as a sequence of tokens (a token is an atomic piece of *)
(* text), so that formatting, URI parsing and substring tests are          *)
(* computed rather than assumed.                                           *)
(***************************************************************************)
EXTENDS Integers, Sequences, FiniteSets, TLC

\* ------------------------------------------------------------------ bounds
\* number of messages the client writes to stdin in one run
MaxMsgs == 3

\* ------------------------------------------------------- program constants
ErrParse == 0 - 32700
ErrInvalidReq == 0 - 32600
ErrMethodNotFound == 0 - 32601
ErrInvalidParams == 0 - 32602
ErrInternal == 0 - 32603
ErrNotFound == 0 - 32001
ErrUnsupported == 0 - 32002

\* ------------------------------------------------------------ Go values
\* the nil interface / nil pointer / nil RawMessage
Nil == [t |-> "nil"]

GoString(s) == [t |-> "string", s |-> s]

\* An integer JSON number n = hi * 2^30 + lo, 0 <= lo < 2^30.
Two30 == 1073741824
Two23 == 8388608

JNum(hi, lo) == [t |-> "num", hi |-> hi, lo |-> lo]
JStr(s) == [t |-> "str", s |-> s]
JNull == [t |-> "null"]
JAbsent == [t |-> "absent"]
JObj(m) == [t |-> "obj", m |-> m]

\* encoding/json stores a JSON number decoded into an interface{} as a
\* float64: an integer below 2^53 is kept, one in [2^53, 2^54) is rounded
\* to the nearest even integer, ties to the even mantissa.
Float64Of(hi, lo) ==
    IF hi < Two23 THEN [t |-> "float64", hi |-> hi, lo |-> lo]
    ELSE LET r == IF lo % 2 = 0 THEN lo
                  ELSE IF ((lo - 1) \div 2) % 2 = 0 THEN lo - 1 ELSE lo + 1
         IN  IF r = Two30 THEN [t |-> "float64", hi |-> hi + 1, lo |-> 0]
             ELSE [t |-> "float64", hi |-> hi, lo |-> r]

\* json.Unmarshal of a JSON value into an interface{}
DecodeAny(j) ==
    CASE j.t = "absent" -> Nil
      [] j.t = "null" -> Nil
      [] j.t = "str" -> GoString(j.s)
      [] j.t = "num" -> Float64Of(j.hi, j.lo)
      [] OTHER -> [t |-> "map", m |-> j.m]

\* json.Marshal of an interface{} holding one of the values above
EncodeAny(v) ==
    CASE v.t = "nil" -> JNull
      [] v.t = "string" -> JStr(v.s)
      [] v.t = "float64" -> JNum(v.hi, v.lo)
      [] OTHER -> JObj(v.m)

\* ----------------------------------------------------------------- text
\* strings.Contains(s, sub) for an atomic piece of text sub
Contains(s, sub) == \E i \in 1..Len(s) : s[i] = sub

\* index of the first token of s that is in set cs, Len(s)+1 if none
RECURSIVE IndexAny(_, _, _)
IndexAny(s, cs, i) ==
    IF i > Len(s) THEN Len(s) + 1
    ELSE IF s[i] \in cs THEN i ELSE IndexAny(s, cs, i + 1)

Cut(s, i) == SubSeq(s, 1, i - 1)
Rest(s, i) == SubSeq(s, i + 1, Len(s))

\* pieces of text that contain spaces
Phrases == {"note not found", "unsupported URI scheme", "unknown tool", "unknown prompt"}

HasSpace(s) == \E i \in 1..Len(s) : s[i] = " " \/ s[i] \in Phrases

\* tokens that are not made of letters, digits or scheme punctuation only
Delims == {":", "/", "?", "#", " ", "%zz"} \cup Phrases

\* net/url.Parse, in the order of its steps.  The result is either
\* [err |-> reason] or [err |-> << >>, Scheme, Host, Path].

\* setPath: a bad percent escape in the path is an error
setPath(scheme, host, path) ==
    IF Contains(path, "%zz") THEN [err |-> <<"invalid URL escape \"%zz\"">>]
    ELSE [err |-> << >>, Scheme |-> scheme, Host |-> host, Path |-> path]

\* parseHost: a space or a bad percent escape in the host is an error
parseHost(scheme, host, path) ==
    IF HasSpace(host) THEN [err |-> <<"invalid character \" \" in host name">>]
    ELSE IF Contains(host, "%zz") THEN [err |-> <<"invalid URL escape \"%zz\"">>]
    ELSE setPath(scheme, host, path)

\* the authority is the text after "//" up to the next "/"
parseAuthority(scheme, s, i) == parseHost(scheme, Cut(s, i), SubSeq(s, i, Len(s)))

\* rest is the URL without scheme, query and fragment
parseRest(scheme, rest) ==
    IF rest = << >> \/ rest[1] # "/"
    THEN IF scheme # << >> THEN [err |-> << >>, Scheme |-> scheme, Host |-> << >>, Path |-> << >>]
         ELSE IF Contains(Cut(rest, IndexAny(rest, {"/"}, 1)), ":")
         THEN [err |-> <<"first path segment in URL cannot contain colon">>]
         ELSE setPath(scheme, << >>, rest)
    ELSE IF Len(rest) >= 2 /\ rest[2] = "/" /\ (scheme # << >> \/ ~(Len(rest) >= 3 /\ rest[3] = "/"))
    THEN parseAuthority(scheme, SubSeq(rest, 3, Len(rest)), IndexAny(SubSeq(rest, 3, Len(rest)), {"/"}, 1))
    ELSE setPath(scheme, << >>, rest)

\* getScheme: the scheme is the text before the first ":" when that text is
\* made of letters, digits and scheme punctuation; c is the position of the
\* first token of another kind
getScheme(rawURL, c) ==
    IF c > Len(rawURL) \/ rawURL[c] # ":"
    THEN parseRest(<< >>, Cut(rawURL, IndexAny(rawURL, {"?"}, 1)))
    ELSE IF c = 1 THEN [err |-> <<"missing protocol scheme">>]
    ELSE parseRest(Cut(rawURL, c), Cut(Rest(rawURL, c), IndexAny(Rest(rawURL, c), {"?"}, 1)))

noFragment(u) == Cut(u, IndexAny(u, {"#"}, 1))

UrlParse(u) == getScheme(noFragment(u), IndexAny(noFragment(u), Delims, 1))

\* the text of the *url.Error wrapped by ReadResource
UrlErrorText(u, reason) == <<"parse \"">> \o u \o <<"\": ">> \o reason

\* ------------------------------------------------------- capability registry
\* The note map s.notes is a function from note names to contents.  A map
\* range visits the keys in an order the runtime chooses: ord is that order.
Orders(notes) ==
    {o \in [1..Cardinality(DOMAIN notes) -> DOMAIN notes] :
        \A i, j \in DOMAIN o : i # j => o[i] # o[j]}

Resource(name) ==
    [URI |-> <<"note", ":", "/", "/", "internal", "/">> \o name,
     Name |-> <<"Note: ">> \o name,
     Description |-> <<"A simple note named ">> \o name,
     MimeType |-> <<"text/plain">>]

\* ListResources that returns nil for an empty note map
ListResources_NilWhenEmpty(notes, ord) ==
    IF ord = << >> THEN Nil
    ELSE [t |-> "Resources", v |-> [i \in DOMAIN ord |-> Resource(ord[i])]]

ListResources(notes, ord) ==
    [t |-> "Resources", v |-> [i \in DOMAIN ord |-> Resource(ord[i])]]

\* readParsed that looks the note up before it checks the scheme
readParsed_LookupBeforeScheme(notes, uri, parsedURI) ==
    IF parsedURI.err # << >>
    THEN [err |-> <<"invalid URI: ">> \o UrlErrorText(uri, parsedURI.err)]
    ELSE IF (IF parsedURI.Path # << >> THEN Tail(parsedURI.Path) ELSE << >>) \in DOMAIN notes
    THEN [err |-> << >>,
          content |-> GoString(notes[IF parsedURI.Path # << >> THEN Tail(parsedURI.Path) ELSE << >>])]
    ELSE IF parsedURI.Scheme # <<"note">>
    THEN [err |-> <<"unsupported URI scheme", ": ">> \o parsedURI.Scheme]
    ELSE [err |-> <<"note not found", ": ">>
                  \o (IF parsedURI.Path # << >> THEN Tail(parsedURI.Path) ELSE << >>)]

\* readParsed that returns the empty text for a note that is not there
readParsed_MissingNoteIsEmpty(notes, uri, parsedURI) ==
    IF parsedURI.err # << >>
    THEN [err |-> <<"invalid URI: ">> \o UrlErrorText(uri, parsedURI.err)]
    ELSE IF parsedURI.Scheme # <<"note">>
    THEN [err |-> <<"unsupported URI scheme", ": ">> \o parsedURI.Scheme]
    ELSE IF (IF parsedURI.Path # << >> THEN Tail(parsedURI.Path) ELSE << >>) \notin DOMAIN notes
    THEN [err |-> << >>, content |-> GoString(<< >>)]
    ELSE [err |-> << >>,
          content |-> GoString(notes[IF parsedURI.Path # << >> THEN Tail(parsedURI.Path) ELSE << >>])]

\* ReadResource after url.Parse returned parsedURI
readParsed(notes, uri, parsedURI) ==
    IF parsedURI.err # << >>
    THEN [err |-> <<"invalid URI: ">> \o UrlErrorText(uri, parsedURI.err)]
    ELSE IF parsedURI.Scheme # <<"note">>
    THEN [err |-> <<"unsupported URI scheme", ": ">> \o parsedURI.Scheme]
    ELSE IF (IF parsedURI.Path # << >> THEN Tail(parsedURI.Path) ELSE << >>) \notin DOMAIN notes
    THEN [err |-> <<"note not found", ": ">>
                  \o (IF parsedURI.Path # << >> THEN Tail(parsedURI.Path) ELSE << >>)]
    ELSE [err |-> << >>,
          content |-> GoString(notes[IF parsedURI.Path # << >> THEN Tail(parsedURI.Path) ELSE << >>])]

ReadResource(notes, uri) == readParsed(notes, uri, UrlParse(uri))

ListPrompts ==
    [t |-> "Prompts",
     v |-> << [Name |-> "summarize-notes",
               Description |-> "Creates a summary of all notes",
               Arguments |-> << [Name |-> "style",
                                 Description |-> "Style of the summary (brief/detailed)",
                                 Required |-> FALSE] >>] >>]

\* NotesList that renders the first note of the range only
NotesList_FirstNoteOnly(notes, ord, i) ==
    IF i > Len(ord) \/ i > 1 THEN << >>
    ELSE <<"- ">> \o ord[i] \o <<": ">> \o notes[ord[i]] \o <<"\n">>

RECURSIVE NotesList(_, _, _)
NotesList(notes, ord, i) ==
    IF i > Len(ord) THEN << >>
    ELSE <<"- ">> \o ord[i] \o <<": ">> \o notes[ord[i]] \o <<"\n">>
         \o NotesList(notes, ord, i + 1)

\* GetPrompt that gives details for every style but "brief"
GetPrompt_DetailedUnlessBrief(notes, ord, name, arguments) ==
    IF name # <<"summarize-notes">>
    THEN [err |-> <<"unknown prompt", ": ">> \o name]
    ELSE LET style0 == IF "style" \in DOMAIN arguments THEN arguments["style"] ELSE << >>
             style == IF style0 = << >> THEN <<"brief">> ELSE style0
             detailPrompt == IF style # <<"brief">> THEN <<" Give extensive details.">> ELSE << >>
         IN  [err |-> << >>,
              result |-> [t |-> "GetPromptResult",
                          Description |-> "Summarize the current notes",
                          Messages |-> << [Role |-> "user",
                                           Content |-> [Type |-> "text",
                                                        Text |-> <<"Here are the current notes to summarize:">>
                                                                 \o detailPrompt \o <<"\n\n">>
                                                                 \o NotesList(notes, ord, 1)]] >>]]

\* arguments is a Go map[string]string: a function from keys to texts
GetPrompt(notes, ord, name, arguments) ==
    IF name # <<"summarize-notes">>
    THEN [err |-> <<"unknown prompt", ": ">> \o name]
    ELSE LET style0 == IF "style" \in DOMAIN arguments THEN arguments["style"] ELSE << >>
             style == IF style0 = << >> THEN <<"brief">> ELSE style0
             detailPrompt == IF style = <<"detailed">> THEN <<" Give extensive details.">> ELSE << >>
         IN  [err |-> << >>,
              result |-> [t |-> "GetPromptResult",
                          Description |-> "Summarize the current notes",
                          Messages |-> << [Role |-> "user",
                                           Content |-> [Type |-> "text",
                                                        Text |-> <<"Here are the current notes to summarize:">>
                                                                 \o detailPrompt \o <<"\n\n">>
                                                                 \o NotesList(notes, ord, 1)]] >>]]

ListTools ==
    [t |-> "Tools",
     v |-> << [Name |-> "add-note", Description |-> "Add a new note",
               InputSchema |-> [type |-> "object",
                                properties |-> {"name", "content"},
                                required |-> {"name", "content"}]] >>]

\* IsNonEmptyString that accepts the empty string
IsNonEmptyString_AnyString(arguments, key) ==
    /\ key \in DOMAIN arguments
    /\ arguments[key].t = "string"

\* arguments is a Go map[string]interface{}: a function from keys to Go values
IsNonEmptyString(arguments, key) ==
    /\ key \in DOMAIN arguments
    /\ arguments[key].t = "string"
    /\ arguments[key].s # << >>

\* SetNote that replaces the whole map by the one entry
SetNote_DropsOtherNotes(notes, name, content) == [n \in {name} |-> content]

SetNote(notes, name, content) ==
    [n \in DOMAIN notes \cup {name} |-> IF n = name THEN content ELSE notes[n]]

\* CallTool that stores the name before it has checked the content
CallTool_StoresBeforeContentCheck(notes, name, arguments) ==
    IF name # <<"add-note">>
    THEN [err |-> <<"unknown tool", ": ">> \o name, notes |-> notes]
    ELSE IF ~IsNonEmptyString(arguments, "name")
    THEN [err |-> <<"missing or invalid name">>, notes |-> notes]
    ELSE IF ~IsNonEmptyString(arguments, "content")
    THEN [err |-> <<"missing or invalid content">>,
          notes |-> SetNote(notes, arguments["name"].s, << >>)]
    ELSE [err |-> << >>,
          notes |-> SetNote(notes, arguments["name"].s, arguments["content"].s),
          result |-> [t |-> "TextContents",
                      v |-> << [Type |-> "text",
                                Text |-> <<"Added note '">> \o arguments["name"].s
                                         \o <<"' with content: ">> \o arguments["content"].s] >>]]

\* CallTool that accepts any string as the name of the note
CallTool_AcceptsEmptyName(notes, name, arguments) ==
    IF name # <<"add-note">>
    THEN [err |-> <<"unknown tool", ": ">> \o name, notes |-> notes]
    ELSE IF ~("name" \in DOMAIN arguments /\ arguments["name"].t = "string")
    THEN [err |-> <<"missing or invalid name">>, notes |-> notes]
    ELSE IF ~IsNonEmptyString(arguments, "content")
    THEN [err |-> <<"missing or invalid content">>, notes |-> notes]
    ELSE [err |-> << >>,
          notes |-> SetNote(notes, arguments["name"].s, arguments["content"].s),
          result |-> [t |-> "TextContents",
                      v |-> << [Type |-> "text",
                                Text |-> <<"Added note '">> \o arguments["name"].s
                                         \o <<"' with content: ">> \o arguments["content"].s] >>]]

CallTool(notes, name, arguments) ==
    IF name # <<"add-note">>
    THEN [err |-> <<"unknown tool", ": ">> \o name, notes |-> notes]
    ELSE IF ~IsNonEmptyString(arguments, "name")
    THEN [err |-> <<"missing or invalid name">>, notes |-> notes]
    ELSE IF ~IsNonEmptyString(arguments, "content")
    THEN [err |-> <<"missing or invalid content">>, notes |-> notes]
    ELSE LET noteName == arguments["name"].s
             content == arguments["content"].s
         IN  [err |-> << >>,
              notes |-> SetNote(notes, noteName, content),
              result |-> [t |-> "TextContents",
                          v |-> << [Type |-> "text",
                                    Text |-> <<"Added note '">> \o noteName
                                             \o <<"' with content: ">> \o content] >>]]

\* ------------------------------------------------------------- handlers
NoErr == << >>

newErrorResponse(id, code, message, err) ==
    [JSONRPC |-> "2.0", ID |-> id, Result |-> Nil,
     Error |-> [t |-> "RPCError", Code |-> code, Message |-> message,
                Data |-> IF err # NoErr THEN err ELSE <<message>>]]

newResultResponse(id, result) ==
    [JSONRPC |-> "2.0", ID |-> id, Result |-> result, Error |-> Nil]

JsonTypeError(j) == <<"json: cannot unmarshal ", j.t, " into Go value">>

\* json.Unmarshal of the params payload j into a string field of a struct:
\* null leaves the zero value, an absent or null field too, unknown fields
\* are ignored, and a value of another type is an error.
UnmarshalStringField(j, field) ==
    IF j.t = "null" THEN [err |-> NoErr, v |-> << >>]
    ELSE IF j.t # "obj" THEN [err |-> JsonTypeError(j)]
    ELSE IF field \notin DOMAIN j.m \/ j.m[field].t = "null" THEN [err |-> NoErr, v |-> << >>]
    ELSE IF j.m[field].t = "str" THEN [err |-> NoErr, v |-> j.m[field].s]
    ELSE [err |-> JsonTypeError(j.m[field])]

\* ... into a map[string]string field: nil when absent or null
UnmarshalStringMapField(j, field) ==
    IF j.t # "obj" \/ field \notin DOMAIN j.m \/ j.m[field].t = "null"
    THEN [err |-> NoErr, isNil |-> TRUE]
    ELSE LET a == j.m[field] IN
         IF a.t # "obj" THEN [err |-> JsonTypeError(a)]
         ELSE IF \E k \in DOMAIN a.m : a.m[k].t \notin {"str", "null"}
         THEN [err |-> JsonTypeError(CHOOSE x \in {a.m[k] : k \in DOMAIN a.m} : x.t \notin {"str", "null"})]
         ELSE [err |-> NoErr, isNil |-> FALSE,
               v |-> [k \in DOMAIN a.m |-> IF a.m[k].t = "str" THEN a.m[k].s ELSE << >>]]

\* ... into a map[string]interface{} field: nil when absent or null
UnmarshalAnyMapField(j, field) ==
    IF j.t # "obj" \/ field \notin DOMAIN j.m \/ j.m[field].t = "null"
    THEN [err |-> NoErr, isNil |-> TRUE]
    ELSE LET a == j.m[field] IN
         IF a.t # "obj" THEN [err |-> JsonTypeError(a)]
         ELSE [err |-> NoErr, isNil |-> FALSE, v |-> [k \in DOMAIN a.m |-> DecodeAny(a.m[k])]]

\* make(map[...]...): the empty map
EmptyMap == [k \in {} |-> Nil]

\* Every handler returns the response, the note map it leaves behind and the
\* calls of the registry it has made, each with its arguments.
handleListResources(req, notes, ord) ==
    [resp |-> newResultResponse(req.ID, ListResources(notes, ord)), notes |-> notes,
     called |-> << <<"ListResources">> >>]

handleReadResource(req, notes) ==
    IF req.Params = Nil
    THEN [resp |-> newErrorResponse(req.ID, ErrInvalidParams, "params required", NoErr), notes |-> notes, called |-> << >>]
    ELSE LET uri == UnmarshalStringField(req.Params.j, "uri") IN
         IF uri.err # NoErr
         THEN [resp |-> newErrorResponse(req.ID, ErrInvalidParams, "invalid URI parameter", uri.err), notes |-> notes, called |-> << >>]
         ELSE IF uri.v = << >>
         THEN [resp |-> newErrorResponse(req.ID, ErrInvalidParams, "URI is required", NoErr), notes |-> notes, called |-> << >>]
         ELSE LET r == ReadResource(notes, uri.v) IN
              IF r.err # NoErr
              THEN [resp |-> IF Contains(r.err, "note not found")
                             THEN newErrorResponse(req.ID, ErrNotFound, "note not found", r.err)
                             ELSE IF Contains(r.err, "unsupported URI scheme")
                             THEN newErrorResponse(req.ID, ErrUnsupported, "unsupported URI scheme", r.err)
                             ELSE newErrorResponse(req.ID, ErrInternal, "internal error", r.err),
                    notes |-> notes,
                    called |-> << <<"ReadResource", uri.v>> >>]
              ELSE [resp |-> newResultResponse(req.ID, r.content), notes |-> notes,
                    called |-> << <<"ReadResource", uri.v>> >>]

handleListPrompts(req, notes) ==
    [resp |-> newResultResponse(req.ID, ListPrompts), notes |-> notes,
     called |-> << <<"ListPrompts">> >>]

handleGetPrompt(req, notes, ord) ==
    IF req.Params = Nil
    THEN [resp |-> newErrorResponse(req.ID, ErrInvalidParams, "params required", NoErr), notes |-> notes, called |-> << >>]
    ELSE LET name == UnmarshalStringField(req.Params.j, "name")
             args == UnmarshalStringMapField(req.Params.j, "arguments")
         IN
         IF name.err # NoErr \/ args.err # NoErr
         THEN [resp |-> newErrorResponse(req.ID, ErrInvalidParams, "invalid prompt parameters",
                                         IF name.err # NoErr THEN name.err ELSE args.err),
               notes |-> notes, called |-> << >>]
         ELSE IF name.v = << >>
         THEN [resp |-> newErrorResponse(req.ID, ErrInvalidParams, "prompt name is required", NoErr), notes |-> notes, called |-> << >>]
         ELSE LET arguments == IF args.isNil THEN EmptyMap ELSE args.v
                  r == GetPrompt(notes, ord, name.v, arguments)
              IN  IF r.err # NoErr
                  THEN [resp |-> IF Contains(r.err, "unknown prompt")
                                 THEN newErrorResponse(req.ID, ErrNotFound, "prompt not found", r.err)
                                 ELSE newErrorResponse(req.ID, ErrInternal, "internal error", r.err),
                        notes |-> notes,
                        called |-> << <<"GetPrompt", name.v, arguments>> >>]
                  ELSE [resp |-> newResultResponse(req.ID, r.result), notes |-> notes,
                        called |-> << <<"GetPrompt", name.v, arguments>> >>]

handleListTools(req, notes) ==
    [resp |-> newResultResponse(req.ID, ListTools), notes |-> notes,
     called |-> << <<"ListTools">> >>]

\* handleCallTool without the check that the tool name is not empty
handleCallTool_NoNameCheck(req, notes) ==
    IF req.Params = Nil
    THEN [resp |-> newErrorResponse(req.ID, ErrInvalidParams, "params required", NoErr), notes |-> notes, called |-> << >>]
    ELSE LET name == UnmarshalStringField(req.Params.j, "name")
             args == UnmarshalAnyMapField(req.Params.j, "arguments")
         IN
         IF name.err # NoErr \/ args.err # NoErr
         THEN [resp |-> newErrorResponse(req.ID, ErrInvalidParams, "invalid tool parameters",
                                         IF name.err # NoErr THEN name.err ELSE args.err),
               notes |-> notes, called |-> << >>]
         ELSE LET arguments == IF args.isNil THEN EmptyMap ELSE args.v
                  r == CallTool(notes, name.v, arguments)
              IN  IF r.err # NoErr
                  THEN [resp |-> IF Contains(r.err, "unknown tool")
                                 THEN newErrorResponse(req.ID, ErrNotFound, "tool not found", r.err)
                                 ELSE newErrorResponse(req.ID, ErrInvalidParams, "invalid tool arguments", r.err),
                        notes |-> r.notes,
                        called |-> << <<"CallTool", name.v, arguments>> >>]
                  ELSE [resp |-> newResultResponse(req.ID, r.result), notes |-> r.notes,
                        called |-> << <<"CallTool", name.v, arguments>> >>]

handleCallTool(req, notes) ==
    IF req.Params = Nil
    THEN [resp |-> newErrorResponse(req.ID, ErrInvalidParams, "params required", NoErr), notes |-> notes, called |-> << >>]
    ELSE LET name == UnmarshalStringField(req.Params.j, "name")
             args == UnmarshalAnyMapField(req.Params.j, "arguments")
         IN
         IF name.err # NoErr \/ args.err # NoErr
         THEN [resp |-> newErrorResponse(req.ID, ErrInvalidParams, "invalid tool parameters",
                                         IF name.err # NoErr THEN name.err ELSE args.err),
               notes |-> notes, called |-> << >>]
         ELSE IF name.v = << >>
         THEN [resp |-> newErrorResponse(req.ID, ErrInvalidParams, "tool name is required", NoErr), notes |-> notes, called |-> << >>]
         ELSE LET arguments == IF args.isNil THEN EmptyMap ELSE args.v
                  r == CallTool(notes, name.v, arguments)
              IN  IF r.err # NoErr
                  THEN [resp |-> IF Contains(r.err, "unknown tool")
                                 THEN newErrorResponse(req.ID, ErrNotFound, "tool not found", r.err)
                                 ELSE newErrorResponse(req.ID, ErrInvalidParams, "invalid tool arguments", r.err),
                        notes |-> r.notes,
                        called |-> << <<"CallTool", name.v, arguments>> >>]
                  ELSE [resp |-> newResultResponse(req.ID, r.result), notes |-> r.notes,
                        called |-> << <<"CallTool", name.v, arguments>> >>]

\* handleRequest whose default case runs the tool handler
handleRequest_UnknownMethodCallsTool(req, notes, ord) ==
    IF req.Method = ""
    THEN [resp |-> newErrorResponse(req.ID, ErrInvalidReq, "method is required", NoErr), notes |-> notes, called |-> << >>]
    ELSE CASE req.Method = "list_resources" -> handleListResources(req, notes, ord)
           [] req.Method = "read_resource" -> handleReadResource(req, notes)
           [] req.Method = "list_prompts" -> handleListPrompts(req, notes)
           [] req.Method = "get_prompt" -> handleGetPrompt(req, notes, ord)
           [] req.Method = "list_tools" -> handleListTools(req, notes)
           [] OTHER -> handleCallTool(req, notes)

\* the dispatcher
handleRequest(req, notes, ord) ==
    IF req.Method = ""
    THEN [resp |-> newErrorResponse(req.ID, ErrInvalidReq, "method is required", NoErr), notes |-> notes, called |-> << >>]
    ELSE CASE req.Method = "list_resources" -> handleListResources(req, notes, ord)
           [] req.Method = "read_resource" ->
                IF req.Params = Nil
                THEN [resp |-> newErrorResponse(req.ID, ErrInvalidParams, "params required", NoErr), notes |-> notes, called |-> << >>]
                ELSE handleReadResource(req, notes)
           [] req.Method = "list_prompts" -> handleListPrompts(req, notes)
           [] req.Method = "get_prompt" ->
                IF req.Params = Nil
                THEN [resp |-> newErrorResponse(req.ID, ErrInvalidParams, "params required", NoErr), notes |-> notes, called |-> << >>]
                ELSE handleGetPrompt(req, notes, ord)
           [] req.Method = "list_tools" -> handleListTools(req, notes)
           [] req.Method = "call_tool" ->
                IF req.Params = Nil
                THEN [resp |-> newErrorResponse(req.ID, ErrInvalidParams, "params required", NoErr), notes |-> notes, called |-> << >>]
                ELSE handleCallTool(req, notes)
           [] OTHER ->
                [resp |-> newErrorResponse(req.ID, ErrMethodNotFound, "method not found",
                                           <<"unknown method: ", req.Method>>),
                 notes |-> notes, called |-> << >>]

\* -------------------------------------------------------------- messages
\* A message on stdin is either a JSON object with the envelope's fields (an
\* absent field is JAbsent, an absent string field is ""), or text that
\* json.Decoder rejects because it is not JSON.
Req(v, i, m, p) == [kind |-> "object", jsonrpc |-> v, id |-> i, method |-> m, params |-> p]
Garbage == [kind |-> "garbage", jsonrpc |-> "", id |-> JAbsent, method |-> "", params |-> JAbsent]

Decodable(msg) == msg.kind = "object"

\* DecodeRequest that leaves an empty object in Params when the message has
\* no params member
DecodeRequest_AbsentParamsIsEmptyObject(msg) ==
    [JSONRPC |-> msg.jsonrpc,
     ID |-> DecodeAny(msg.id),
     Method |-> msg.method,
     Params |-> IF msg.params = JAbsent THEN [t |-> "raw", j |-> JObj(EmptyMap)]
                ELSE [t |-> "raw", j |-> msg.params]]

\* decoder.Decode(&req) on a decodable message
DecodeRequest(msg) ==
    [JSONRPC |-> msg.jsonrpc,
     ID |-> DecodeAny(msg.id),
     Method |-> msg.method,
     Params |-> IF msg.params = JAbsent THEN Nil ELSE [t |-> "raw", j |-> msg.params]]

DecodeError(msg) == <<"invalid character 'x' looking for beginning of value">>

\* the parse-error response Run builds when Decode fails
parseErrorResponse(msg) ==
    [JSONRPC |-> "2.0", ID |-> Nil, Result |-> Nil,
     Error |-> [t |-> "RPCError", Code |-> ErrParse, Message |-> "parse error",
                Data |-> DecodeError(msg)]]

\* response := s.handleRequest(&req): the call of the dispatcher comes first
\* among the calls made for the request
dispatch(req, notes, ord) ==
    [resp |-> handleRequest(req, notes, ord).resp,
     notes |-> handleRequest(req, notes, ord).notes,
     called |-> << <<"handleRequest", req.Method>> >> \o handleRequest(req, notes, ord).called]

\* respond without the version check
respond_AnyVersion(req, notes, ord) ==
    IF req.Method = ""
    THEN [resp |-> [JSONRPC |-> "2.0", ID |-> req.ID, Result |-> Nil,
                    Error |-> [t |-> "RPCError", Code |-> ErrInvalidReq,
                               Message |-> "method is required",
                               Data |-> <<"empty method">>]],
          notes |-> notes, called |-> << >>]
    ELSE dispatch(req, notes, ord)

\* Run that dispatches the request first and checks the envelope afterwards
respond_ChecksAfterDispatch(req, notes, ord) ==
    IF req.JSONRPC # "2.0"
    THEN [resp |-> [JSONRPC |-> "2.0", ID |-> req.ID, Result |-> Nil,
                    Error |-> [t |-> "RPCError", Code |-> ErrInvalidReq,
                               Message |-> "invalid JSON-RPC version",
                               Data |-> <<"expected version 2.0">>]],
          notes |-> dispatch(req, notes, ord).notes,
          called |-> dispatch(req, notes, ord).called]
    ELSE IF req.Method = ""
    THEN [resp |-> [JSONRPC |-> "2.0", ID |-> req.ID, Result |-> Nil,
                    Error |-> [t |-> "RPCError", Code |-> ErrInvalidReq,
                               Message |-> "method is required",
                               Data |-> <<"empty method">>]],
          notes |-> dispatch(req, notes, ord).notes,
          called |-> dispatch(req, notes, ord).called]
    ELSE dispatch(req, notes, ord)

\* what Run does with a decoded request: the two envelope checks, then the
\* dispatcher
respond(req, notes, ord) ==
    IF req.JSONRPC # "2.0"
    THEN [resp |-> [JSONRPC |-> "2.0", ID |-> req.ID, Result |-> Nil,
                    Error |-> [t |-> "RPCError", Code |-> ErrInvalidReq,
                               Message |-> "invalid JSON-RPC version",
                               Data |-> <<"expected version 2.0">>]],
          notes |-> notes, called |-> << >>]
    ELSE IF req.Method = ""
    THEN [resp |-> [JSONRPC |-> "2.0", ID |-> req.ID, Result |-> Nil,
                    Error |-> [t |-> "RPCError", Code |-> ErrInvalidReq,
                               Message |-> "method is required",
                               Data |-> <<"empty method">>]],
          notes |-> notes, called |-> << >>]
    ELSE dispatch(req, notes, ord)

\* afterSelect without the ctx.Done() case
afterSelect_IgnoresCancel(done) == [pc |-> "decode", ret |-> "running"]

\* where Run goes after the select statement
afterSelect(done) ==
    IF done THEN [pc |-> "stopped", ret |-> "ctxErr"]
    ELSE [pc |-> "decode", ret |-> "running"]

\* afterDecode that starts the next iteration without answering a decoded request
afterDecode_DropsRequest(err) ==
    CASE err = "EOF" -> [pc |-> "stopped", ret |-> "nil", fatal |-> FALSE]
      [] err = "none" -> [pc |-> "select", ret |-> "running", fatal |-> FALSE]
      [] OTHER -> [pc |-> "encode", ret |-> "running", fatal |-> TRUE]

\* afterDecode that decodes the next message while the request is unanswered
afterDecode_DecodesAhead(err) ==
    CASE err = "EOF" -> [pc |-> "stopped", ret |-> "nil", fatal |-> FALSE]
      [] err = "none" -> [pc |-> "decode", ret |-> "running", fatal |-> FALSE]
      [] OTHER -> [pc |-> "encode", ret |-> "running", fatal |-> TRUE]

\* afterDecode without the io.EOF test
afterDecode_EOFIsError(err) ==
    CASE err = "none" -> [pc |-> "handle", ret |-> "running", fatal |-> FALSE]
      [] OTHER -> [pc |-> "encode", ret |-> "running", fatal |-> TRUE]

\* where Run goes after decoder.Decode returned err: "EOF" for io.EOF,
\* "none" for nil, "other" for any other error
afterDecode(err) ==
    CASE err = "EOF" -> [pc |-> "stopped", ret |-> "nil", fatal |-> FALSE]
      [] err = "none" -> [pc |-> "handle", ret |-> "running", fatal |-> FALSE]
      [] OTHER -> [pc |-> "encode", ret |-> "running", fatal |-> TRUE]

\* afterEncode that goes on with the loop after the parse error was written
afterEncode_ContinuesAfterParseError(ok, fatal) ==
    IF ~ok THEN [pc |-> "stopped", ret |-> "encodeErr"]
    ELSE [pc |-> "select", ret |-> "running"]

\* afterEncode that drops the error of the write
afterEncode_IgnoresWriteError(ok, fatal) ==
    IF fatal THEN [pc |-> "stopped", ret |-> "decodeErr"]
    ELSE [pc |-> "select", ret |-> "running"]

\* where Run goes after encoder.Encode: ok is whether the write succeeded,
\* fatal whether the response was the parse error
afterEncode(ok, fatal) ==
    IF ~ok THEN [pc |-> "stopped", ret |-> "encodeErr"]
    ELSE IF fatal THEN [pc |-> "stopped", ret |-> "decodeErr"]
    ELSE [pc |-> "select", ret |-> "running"]

\* The second Run of the source (the one with stdoutMutex) has the steps of
\* the first one, with every write to stdout under the mutex.

\* the parse-error response the second Run builds when Decode fails
mutexParseErrorResponse(msg) ==
    [JSONRPC |-> "2.0", ID |-> Nil, Result |-> Nil,
     Error |-> [t |-> "RPCError", Code |-> ErrParse, Message |-> "parse error",
                Data |-> DecodeError(msg)]]

\* what the second Run does with a decoded request: the version check, the
\* method check, then s.handleRequest(&req)
mutexRespond(req, notes, ord) ==
    IF req.JSONRPC # "2.0"
    THEN [resp |-> [JSONRPC |-> "2.0", ID |-> req.ID, Result |-> Nil,
                    Error |-> [t |-> "RPCError", Code |-> ErrInvalidReq,
                               Message |-> "invalid JSON-RPC version",
                               Data |-> <<"expected version 2.0">>]],
          notes |-> notes]
    ELSE IF req.Method = ""
    THEN [resp |-> [JSONRPC |-> "2.0", ID |-> req.ID, Result |-> Nil,
                    Error |-> [t |-> "RPCError", Code |-> ErrInvalidReq,
                               Message |-> "method is required",
                               Data |-> <<"empty method">>]],
          notes |-> notes]
    ELSE [resp |-> handleRequest(req, notes, ord).resp,
          notes |-> handleRequest(req, notes, ord).notes]

\* mutexAfterEncode that goes on with the loop when the write has failed
mutexAfterEncode_IgnoresEncodeErr(encodeErr, fatal) ==
    IF fatal THEN [pc |-> "stopped", ret |-> "decodeErr"]
    ELSE [pc |-> "select", ret |-> "running"]

\* where the second Run goes after stdoutMutex.Unlock(): encodeErr is whether
\* the write failed, fatal whether the response was the parse error
mutexAfterEncode(encodeErr, fatal) ==
    IF encodeErr THEN [pc |-> "stopped", ret |-> "encodeErr"]
    ELSE IF fatal THEN [pc |-> "stopped", ret |-> "decodeErr"]
    ELSE [pc |-> "select", ret |-> "running"]

\* encoder.Encode(response): result and error are omitted when nil
EncodeResponse(resp) ==
    [jsonrpc |-> resp.JSONRPC,
     id |-> EncodeAny(resp.ID),
     result |-> IF resp.Result = Nil THEN JAbsent ELSE resp.Result,
     error |-> IF resp.Error = Nil THEN JAbsent ELSE resp.Error]

NoteA == <<"a">>
NoteB == <<"b">>
TextX == <<"x">>
TextY == <<"y">>
NoteURI(name) == <<"note", ":", "/", "/", "internal", "/">> \o name
AddNote(name, content) ==
    JObj([name |-> JStr(<<"add-note">>),
          arguments |-> JObj([name |-> JStr(name), content |-> JStr(content)])])

BigID == JNum(Two23, 1)

\* the messages a client may send
Messages ==
    { Garbage,
      Req("2.0", JStr(<<"r">>), "list_resources", JAbsent),
      Req("2.0", JNum(0, 1), "call_tool", AddNote(NoteA, TextX)),
      Req("2.0", JNull, "read_resource", JObj([uri |-> JStr(NoteURI(NoteA))])),
      Req("2.0", JNum(0, 2), "get_prompt", JObj([name |-> JStr(<<"summarize-notes">>)])),
      Req("2.0", BigID, "list_tools", JAbsent),
      Req("2.0", JAbsent, "bogus", JAbsent),
      Req("2.0", JNum(0, 1), "call_tool", JAbsent),
      Req("2.0", JStr(<<"r">>), "", JAbsent),
      Req("2.0", BigID, "", AddNote(NoteB, TextY)),
      Req("1.0", BigID, "call_tool", AddNote(NoteA, TextY)),
      Req("", JAbsent, "list_resources", JAbsent) }

\* ------------------------------------------------------------------ state
VARIABLES
    stdin,      \* the messages the client has written to the server's stdin
    closed,     \* the client has closed stdin
    rd,         \* how many messages the decoder has consumed
    ctxDone,    \* ctx.Done() is closed
    stdoutOK,   \* writes to stdout succeed
    pc,         \* where Run is: "select", "decode", "handle", "encode", "stopped"
    req,        \* the iteration's RPCRequest (NoReq outside its scope)
    response,   \* the RPCResponse Run is about to write (NoResp outside its scope)
    fatal,      \* Run is on the path that ends by returning the decode error
    notes,      \* s.notes
    stdout,     \* the responses written to stdout
    answered,   \* for each response written, the position of the message it answers
    ret,        \* Run's return value: "running" until it returns
    invoked     \* the calls made for the request of this iteration: the dispatcher, the registry

\* the service wrapper around the server (cmd/main.go of the service build)
VARIABLES
    command,    \* os.Args[1], the command handleServiceCommand is given
    failing,    \* the operations of the service.Service that return an error
    status,     \* the service.Status that s.Status() reports
    calls,      \* the operations invoked on the service.Service, in order
    console,    \* the lines handleServiceCommand has printed
    cmdErr,     \* handleServiceCommand's return value: pending until it returns
    runPc,      \* the goroutine of program.run: "none", "spawned", "running", "returned"
    startRet,   \* program.Start's return value: pending until it returns
    stopRet,    \* program.Stop's return value: pending until it returns
    logged      \* what the service logger was given, in order

svcVars == <<command, failing, status, calls, console, cmdErr, runPc, startRet, stopRet, logged>>

\* callers of the registry from goroutines of their own, s.notesMap and os.Stderr
VARIABLES
    callPc,     \* where each caller is in the operation it has invoked
    callOp,     \* the operation each caller has invoked, with its arguments
    callRet,    \* what the operation returned to each caller
    callSeen,   \* the entries each caller's range over s.notes has visited so far
    rwReaders,  \* the callers that hold s.notesMap for reading
    rwWriter,   \* the caller that has called s.notesMap.Lock() and not yet Unlock(), or 0
    rwLocked,   \* rwWriter holds s.notesMap for writing
    stderr      \* the lines the registry has written to os.Stderr

lockVars == <<callPc, callOp, callRet, callSeen, rwReaders, rwWriter, rwLocked, stderr>>

\* other runs of the server: the process run once before, and the build with
\* the second Run (the one with stdoutMutex) run beside this one
VARIABLES
    before,     \* s.notes as it was when the request of this iteration was handed to the handlers
    earlier,    \* what an earlier run of the server did with its last request (NoRun if there was none)
    mx          \* the run of the second Run on the same input (NoTwin if it is not run)

runVars == <<before, earlier, mx>>

\* the state outside Server.Run
outside == <<svcVars, lockVars, invoked, runVars>>

vars == <<stdin, closed, rd, ctxDone, stdoutOK, pc, req, response, fatal, notes, stdout, answered, ret, outside>>

NoReq == [JSONRPC |-> "", ID |-> Nil, Method |-> "", Params |-> Nil]
NoResp == [JSONRPC |-> "", ID |-> Nil, Result |-> Nil, Error |-> Nil]

\* the server run on its own (cmd/main.go of the plain build): no service
\* command is given and no program is started
NoService ==
    /\ command = ""
    /\ failing = {}
    /\ status = 0
    /\ calls = << >>
    /\ console = << >>
    /\ cmdErr = [t |-> "pending"]
    /\ runPc = "none"
    /\ startRet = [t |-> "pending"]
    /\ stopRet = [t |-> "pending"]
    /\ logged = << >>

\* no goroutine but Run's calls the registry
NoCallers ==
    /\ callPc = << >>
    /\ callOp = << >>
    /\ callRet = << >>
    /\ callSeen = << >>
    /\ rwReaders = {}
    /\ rwWriter = 0
    /\ rwLocked = FALSE
    /\ stderr = << >>

NoRun == [t |-> "none"]
NoTwin == [t |-> "none"]

\* the server is run once, and only the build with the first Run
OneRun ==
    /\ before = EmptyMap
    /\ earlier = NoRun
    /\ mx = NoTwin

\* NewServer, and Run entered with an open context
Init ==
    /\ stdin = << >>
    /\ closed = FALSE
    /\ rd = 0
    /\ ctxDone = FALSE
    /\ stdoutOK = TRUE
    /\ pc = "select"
    /\ req = NoReq
    /\ response = NoResp
    /\ fatal = FALSE
    /\ notes = EmptyMap
    /\ stdout = << >>
    /\ answered = << >>
    /\ ret = "running"
    /\ invoked = << >>
    /\ OneRun
    /\ NoService
    /\ NoCallers

\* ------------------------------------------------------------ environment
\* the client writes a message to the server's stdin
Send(m) ==
    /\ ~closed
    /\ Len(stdin) < MaxMsgs
    /\ stdin' = Append(stdin, m)
    /\ UNCHANGED <<closed, rd, ctxDone, stdoutOK, pc, req, response, fatal, notes, stdout, answered, ret, outside>>

\* the client closes the server's stdin
Close ==
    /\ ~closed
    /\ closed' = TRUE
    /\ UNCHANGED <<stdin, rd, ctxDone, stdoutOK, pc, req, response, fatal, notes, stdout, answered, ret, outside>>

\* the context's cancel function is called
Cancel ==
    /\ ~ctxDone
    /\ ctxDone' = TRUE
    /\ UNCHANGED <<stdin, closed, rd, stdoutOK, pc, req, response, fatal, notes, stdout, answered, ret, outside>>

\* the reader of the server's stdout goes away: writes fail from now on
BreakStdout ==
    /\ stdoutOK
    /\ stdoutOK' = FALSE
    /\ UNCHANGED <<stdin, closed, rd, ctxDone, pc, req, response, fatal, notes, stdout, answered, ret, outside>>

\* --------------------------------------------------------------- Server.Run
\* select { case <-ctx.Done(): return ctx.Err(); default: ... }
RunSelect ==
    /\ pc = "select"
    /\ pc' = afterSelect(ctxDone).pc
    /\ ret' = afterSelect(ctxDone).ret
    /\ UNCHANGED <<stdin, closed, rd, ctxDone, stdoutOK, req, response, fatal, notes, stdout, answered, outside>>

\* decoder.Decode(&req): blocks until a message or the end of input
RunDecode ==
    /\ pc = "decode"
    /\ IF rd < Len(stdin)
       THEN LET msg == stdin[rd + 1]
                a == afterDecode(IF Decodable(msg) THEN "none" ELSE "other")
            IN  /\ rd' = rd + 1
                /\ req' = IF Decodable(msg) THEN DecodeRequest(msg) ELSE NoReq
                /\ response' = IF Decodable(msg) THEN response ELSE parseErrorResponse(msg)
                /\ pc' = a.pc
                /\ ret' = a.ret
                /\ fatal' = a.fatal
       ELSE /\ closed
            /\ pc' = afterDecode("EOF").pc
            /\ ret' = afterDecode("EOF").ret
            /\ fatal' = afterDecode("EOF").fatal
            /\ UNCHANGED <<rd, req, response>>
    /\ UNCHANGED <<stdin, closed, ctxDone, stdoutOK, notes, stdout, answered, outside>>

\* Run that hands the handlers the note map as it was one request ago
RunHandle_ReadsStaleStore ==
    /\ pc = "handle"
    /\ \E ord \in Orders(before), cur \in Orders(notes) :
          /\ response' = respond(req, before, ord).resp
          /\ notes' = respond(req, notes, cur).notes
          /\ invoked' = respond(req, notes, cur).called
    /\ before' = notes
    /\ pc' = "encode"
    /\ UNCHANGED <<stdin, closed, rd, ctxDone, stdoutOK, req, fatal, stdout, answered, ret, svcVars, lockVars, earlier, mx>>

\* the envelope checks and s.handleRequest(&req); a range over the note map
\* visits it in an order ord the runtime chooses
RunHandle ==
    /\ pc = "handle"
    /\ \E ord \in Orders(notes) :
          \E h \in {respond(req, notes, ord)} :
              /\ response' = h.resp
              /\ notes' = h.notes
              /\ invoked' = h.called
    /\ before' = notes
    /\ pc' = "encode"
    /\ UNCHANGED <<stdin, closed, rd, ctxDone, stdoutOK, req, fatal, stdout, answered, ret, svcVars, lockVars, earlier, mx>>

\* encoder.Encode(response): the write to stdout succeeds or fails; then the
\* iteration, or Run, ends
RunEncode ==
    /\ pc = "encode"
    /\ IF stdoutOK
       THEN /\ stdout' = Append(stdout, EncodeResponse(response))
            /\ answered' = Append(answered, rd)
       ELSE UNCHANGED <<stdout, answered>>
    /\ pc' = afterEncode(stdoutOK, fatal).pc
    /\ ret' = afterEncode(stdoutOK, fatal).ret
    /\ req' = NoReq
    /\ response' = NoResp
    /\ invoked' = << >>
    /\ UNCHANGED <<stdin, closed, rd, ctxDone, stdoutOK, fatal, notes, svcVars, lockVars, runVars>>

Run == RunSelect \/ RunDecode \/ RunHandle \/ RunEncode

Next ==
    \/ \E m \in Messages : Send(m)
    \/ Close
    \/ Cancel
    \/ BreakStdout
    \/ RunSelect
    \/ RunDecode
    \/ RunHandle
    \/ RunEncode

Spec == Init /\ [][Next]_vars

\* For progress: the same server and environment, with a client that sends
\* an undecodable message, a request that is rejected or a request that
\* stores a note.  Run's steps are taken by a goroutine the scheduler keeps
\* running; the client and the owner of the context are under no obligation.
LiveMessages ==
    { Garbage,
      Req("2.0", JNum(0, 1), "call_tool", AddNote(NoteA, TextX)),
      Req("1.0", BigID, "call_tool", AddNote(NoteA, TextY)) }

LiveNext ==
    \/ \E m \in LiveMessages : Send(m)
    \/ Close
    \/ Cancel
    \/ BreakStdout
    \/ RunSelect
    \/ RunDecode
    \/ RunHandle
    \/ RunEncode

FairSpec == Init /\ [][LiveNext]_vars /\ WF_vars(Run)

\* A client of the resources: it stores notes (one of them under a name that
\* holds a "?"), overwrites one, lists them and reads them back, and reads
\* URIs of another scheme and URIs that url.Parse rejects.
NoteQ == <<"a", "?", "b">>

ReadURI(uri) == JObj([uri |-> JStr(uri)])

ResourceMessages ==
    { Req("2.0", JNum(0, 1), "call_tool", AddNote(NoteA, TextX)),
      Req("2.0", JNum(0, 2), "call_tool", AddNote(NoteA, TextY)),
      Req("2.0", JNum(0, 3), "call_tool", AddNote(NoteB, TextX)),
      Req("2.0", JNum(0, 4), "call_tool", AddNote(NoteQ, TextY)),
      Req("2.0", JNum(0, 5), "list_resources", JAbsent),
      Req("2.0", JNum(0, 6), "read_resource", ReadURI(NoteURI(NoteA))),
      Req("2.0", JNum(0, 7), "read_resource", ReadURI(NoteURI(NoteB))),
      Req("2.0", JNum(0, 8), "read_resource", ReadURI(NoteURI(NoteQ))),
      Req("2.0", JNum(0, 9), "read_resource", ReadURI(<<"http", ":", "/", "/", "x", "/", "a">>)),
      Req("2.0", JNum(0, 10), "read_resource", ReadURI(<<"internal", "/", "a">>)),
      Req("2.0", JNum(0, 11), "read_resource", ReadURI(<<"note", ":", "/", "/", "internal", "/", "%zz">>)),
      Req("2.0", JNum(0, 12), "read_resource", ReadURI(<<"note", ":", "/", "/", "note not found", "/", "a">>)) }

ResourceNext ==
    \/ \E m \in ResourceMessages : Send(m)
    \/ RunSelect
    \/ RunDecode
    \/ RunHandle
    \/ RunEncode

ResourceSpec == Init /\ [][ResourceNext]_vars

\* A client of the dispatcher: it stores a note, calls the methods that need
\* parameters without a params member, with params null and with params that
\* are not an object, and calls methods the dispatcher does not know.
DispatchMessages ==
    { Req("2.0", JNum(0, 1), "call_tool", AddNote(NoteA, TextX)),
      Req("2.0", JNum(0, 2), "read_resource", JAbsent),
      Req("2.0", JNum(0, 3), "get_prompt", JAbsent),
      Req("2.0", JNum(0, 4), "call_tool", JAbsent),
      Req("2.0", JNum(0, 5), "read_resource", JNull),
      Req("2.0", JNum(0, 6), "get_prompt", JNull),
      Req("2.0", JNum(0, 7), "call_tool", JStr(<<"add-note">>)),
      Req("2.0", JNum(0, 8), "bogus", AddNote(NoteB, TextY)),
      Req("2.0", JNum(0, 9), "LIST_RESOURCES", JAbsent),
      Req("2.0", JNum(0, 10), "list_resources", JAbsent) }

DispatchNext ==
    \/ \E m \in DispatchMessages : Send(m)
    \/ RunSelect
    \/ RunDecode
    \/ RunHandle
    \/ RunEncode

DispatchSpec == Init /\ [][DispatchNext]_vars

\* A client of the tools: it stores and overwrites notes, calls a tool that
\* does not exist, and calls add-note with a name or a content that is
\* missing, not a string or empty, without arguments, and without a tool name.
Call(tool, arguments) == JObj([name |-> JStr(tool), arguments |-> JObj(arguments)])

ToolMessages ==
    { Req("2.0", JNum(0, 1), "call_tool", AddNote(NoteA, TextX)),
      Req("2.0", JNum(0, 2), "call_tool", AddNote(NoteB, TextY)),
      Req("2.0", JNum(0, 3), "call_tool", AddNote(NoteA, TextY)),
      Req("2.0", JNum(0, 4), "call_tool", Call(<<"drop-note">>, [name |-> JStr(NoteB), content |-> JStr(TextX)])),
      Req("2.0", JNum(0, 5), "call_tool", Call(<<"add-note">>, [content |-> JStr(TextX)])),
      Req("2.0", JNum(0, 6), "call_tool", Call(<<"add-note">>, [name |-> JNum(0, 1), content |-> JStr(TextX)])),
      Req("2.0", JNum(0, 7), "call_tool", Call(<<"add-note">>, [name |-> JStr(<< >>), content |-> JStr(TextX)])),
      Req("2.0", JNum(0, 8), "call_tool", Call(<<"add-note">>, [name |-> JStr(NoteA)])),
      Req("2.0", JNum(0, 9), "call_tool", Call(<<"add-note">>, [name |-> JStr(NoteB), content |-> JStr(<< >>)])),
      Req("2.0", JNum(0, 10), "call_tool", Call(<<"add-note">>, [name |-> JStr(NoteA), content |-> JNum(0, 7)])),
      Req("2.0", JNum(0, 11), "call_tool", JObj([name |-> JStr(<<"add-note">>)])),
      Req("2.0", JNum(0, 12), "call_tool",
          JObj([arguments |-> JObj([name |-> JStr(NoteB), content |-> JStr(TextY)])])) }

ToolNext ==
    \/ \E m \in ToolMessages : Send(m)
    \/ RunSelect
    \/ RunDecode
    \/ RunHandle
    \/ RunEncode

ToolSpec == Init /\ [][ToolNext]_vars

\* A client of the prompts: it stores notes (one whose content reads like
\* the detail instruction) and asks for the summarize-notes prompt with the
\* style unset, empty, null, "brief", "detailed", another value and a
\* number, for a prompt that does not exist, and for no prompt.
Suffix == <<" Give extensive details.">>

Prompt(name, arguments) == JObj([name |-> JStr(name), arguments |-> JObj(arguments)])

PromptMessages ==
    { Req("2.0", JNum(0, 1), "call_tool", AddNote(NoteA, TextX)),
      Req("2.0", JNum(0, 2), "call_tool", AddNote(NoteB, Suffix)),
      Req("2.0", JNum(0, 3), "get_prompt", JObj([name |-> JStr(<<"summarize-notes">>)])),
      Req("2.0", JNum(0, 4), "get_prompt", Prompt(<<"summarize-notes">>, [style |-> JStr(<<"detailed">>)])),
      Req("2.0", JNum(0, 5), "get_prompt", Prompt(<<"summarize-notes">>, [style |-> JStr(<< >>)])),
      Req("2.0", JNum(0, 6), "get_prompt", Prompt(<<"summarize-notes">>, [style |-> JStr(<<"brief">>)])),
      Req("2.0", JNum(0, 7), "get_prompt", Prompt(<<"summarize-notes">>, [style |-> JStr(<<"Detailed">>)])),
      Req("2.0", JNum(0, 8), "get_prompt", Prompt(<<"summarize-notes">>, [tone |-> JStr(<<"detailed">>)])),
      Req("2.0", JNum(0, 9), "get_prompt", Prompt(<<"summarize-notes">>, [style |-> JNull])),
      Req("2.0", JNum(0, 10), "get_prompt", Prompt(<<"summarize-notes">>, [style |-> JNum(0, 1)])),
      Req("2.0", JNum(0, 11), "get_prompt", Prompt(<<"summarize">>, [style |-> JStr(<<"detailed">>)])),
      Req("2.0", JNum(0, 12), "get_prompt", JObj([arguments |-> JObj([style |-> JStr(<<"detailed">>)])])) }

PromptNext ==
    \/ \E m \in PromptMessages : Send(m)
    \/ RunSelect
    \/ RunDecode
    \/ RunHandle
    \/ RunEncode

PromptSpec == Init /\ [][PromptNext]_vars

\* A client of the Store: it stores and overwrites notes, calls every method
\* of the dispatch table, and sends add-note calls that must not be carried
\* out: under an unknown method, a wrong version, an empty method, and with
\* an empty content.
StoreMessages ==
    { Req("2.0", JNum(0, 1), "call_tool", AddNote(NoteA, TextX)),
      Req("2.0", JNum(0, 2), "call_tool", AddNote(NoteB, TextY)),
      Req("2.0", JNum(0, 3), "call_tool", AddNote(NoteA, TextY)),
      Req("2.0", JNum(0, 4), "list_resources", JAbsent),
      Req("2.0", JNum(0, 5), "read_resource", ReadURI(NoteURI(NoteA))),
      Req("2.0", JNum(0, 6), "list_prompts", JAbsent),
      Req("2.0", JNum(0, 7), "get_prompt", JObj([name |-> JStr(<<"summarize-notes">>)])),
      Req("2.0", JNum(0, 8), "list_tools", JAbsent),
      Req("2.0", JNum(0, 9), "bogus", AddNote(NoteB, TextX)),
      Req("1.0", JNum(0, 10), "call_tool", AddNote(NoteB, TextX)),
      Req("2.0", JNum(0, 11), "", AddNote(NoteB, TextX)),
      Req("2.0", JNum(0, 12), "call_tool", Call(<<"add-note">>, [name |-> JStr(NoteB), content |-> JStr(<< >>)])),
      Req("2.0", JNum(0, 13), "call_tool", Call(<<"add-note">>, [name |-> JStr(<< >>), content |-> JStr(TextX)])) }

StoreNext ==
    \/ \E m \in StoreMessages : Send(m)
    \/ RunSelect
    \/ RunDecode
    \/ RunHandle
    \/ RunEncode

StoreSpec == Init /\ [][StoreNext]_vars

\* A client that leaves out or empties the field a handler requires (the uri
\* of read_resource, the name of get_prompt and of call_tool), also around
\* arguments that would otherwise store a note, and that leaves out the
\* arguments of a prompt and of a tool.
ValidationMessages ==
    { Req("2.0", JNum(0, 1), "call_tool", AddNote(NoteA, TextX)),
      Req("2.0", JNum(0, 2), "read_resource", JObj(EmptyMap)),
      Req("2.0", JNum(0, 3), "read_resource", ReadURI(<< >>)),
      Req("2.0", JNum(0, 4), "read_resource", ReadURI(NoteURI(NoteA))),
      Req("2.0", JNum(0, 5), "get_prompt", JObj([arguments |-> JObj([style |-> JStr(<<"detailed">>)])])),
      Req("2.0", JNum(0, 6), "get_prompt", Prompt(<< >>, [style |-> JStr(<<"detailed">>)])),
      Req("2.0", JNum(0, 7), "get_prompt", JObj([name |-> JStr(<<"summarize-notes">>)])),
      Req("2.0", JNum(0, 8), "call_tool",
          JObj([arguments |-> JObj([name |-> JStr(NoteB), content |-> JStr(TextY)])])),
      Req("2.0", JNum(0, 9), "call_tool", Call(<< >>, [name |-> JStr(NoteB), content |-> JStr(TextY)])),
      Req("2.0", JNum(0, 10), "call_tool", JObj([name |-> JStr(<<"add-note">>)])),
      Req("2.0", JNum(0, 11), "call_tool", JAbsent) }

ValidationNext ==
    \/ \E m \in ValidationMessages : Send(m)
    \/ RunSelect
    \/ RunDecode
    \/ RunHandle
    \/ RunEncode

ValidationSpec == Init /\ [][ValidationNext]_vars

\* A client that reads note URIs without a path or with the path "/", on a
\* server on which it also stores notes and tries to store one under the
\* empty name.
EmptyPathURIs ==
    { <<"note", ":", "/", "/", "internal">>,
      <<"note", ":">>,
      <<"note", ":", "/", "/", "internal", "/">>,
      <<"note", ":", "/">> }

EmptyPathMessages ==
    { Req("2.0", JNum(0, 1), "call_tool", AddNote(NoteA, TextX)),
      Req("2.0", JNum(0, 2), "call_tool", AddNote(<< >>, TextX)),
      Req("2.0", JNum(0, 3), "call_tool", AddNote(<<"internal">>, TextY)),
      Req("2.0", JNum(0, 4), "read_resource", ReadURI(NoteURI(NoteA))) }
    \cup { Req("2.0", JNum(0, 5), "read_resource", ReadURI(uri)) : uri \in EmptyPathURIs }

EmptyPathNext ==
    \/ \E m \in EmptyPathMessages : Send(m)
    \/ RunSelect
    \/ RunDecode
    \/ RunHandle
    \/ RunEncode

EmptyPathSpec == Init /\ [][EmptyPathNext]_vars

\* -------------------------------------------------- the server run twice
\* A client that stores notes, has requests rejected by the envelope checks
\* and failed by the tool, and asks for the notes to be listed.
RestartMessages ==
    { Req("2.0", JNum(0, 1), "call_tool", AddNote(NoteA, TextX)),
      Req("2.0", JNum(0, 2), "call_tool", AddNote(NoteB, TextY)),
      Req("1.0", JNum(0, 3), "call_tool", AddNote(NoteB, TextX)),
      Req("2.0", JNum(0, 4), "call_tool", Call(<<"add-note">>, [name |-> JStr(NoteA), content |-> JStr(<< >>)])),
      Req("2.0", JNum(0, 5), "list_resources", JAbsent),
      Req("2.0", JNum(0, 6), "get_prompt", JObj([name |-> JStr(<<"summarize-notes">>)])) }

\* The process ends between two iterations of Run, once every message sent
\* has been answered, and main is run again: NewServer makes an empty note
\* map and Run starts on a new stdin.  What the run that ended did with its
\* last request is kept for comparison.
Rerun ==
    /\ earlier = NoRun
    /\ pc = "select"
    /\ rd >= 1 /\ rd = Len(stdin) /\ Len(stdout) = rd
    /\ earlier' = [t |-> "run",
                   store |-> before,
                   request |-> stdin[rd],
                   answer |-> stdout[rd],
                   refused |-> \E k \in 1..(rd - 1) : stdout[k].error # JAbsent]
    /\ stdin' = << >>
    /\ rd' = 0
    /\ notes' = EmptyMap
    /\ stdout' = << >>
    /\ answered' = << >>
    /\ before' = EmptyMap
    /\ UNCHANGED <<closed, ctxDone, stdoutOK, pc, req, response, fatal, ret, invoked, svcVars, lockVars, mx>>

RestartNext ==
    \/ \E m \in RestartMessages : Send(m)
    \/ RunSelect
    \/ RunDecode
    \/ RunHandle
    \/ RunEncode
    \/ Rerun

RestartSpec == Init /\ [][RestartNext]_vars

\* ------------------------------------- the second Run, with stdoutMutex
\* The build whose Run guards os.Stdout with a mutex, run beside the first
\* one: mx is its state.  It reads the same stdin, the same context and
\* writes to a stdout that fails when the first one's does.

\* NewServer, and the second Run entered: pc is "select", "decode", "handle",
\* "lock", "write", "unlock" or "stopped"
TwinStart ==
    [t |-> "run", rd |-> 0, pc |-> "select", req |-> NoReq, response |-> NoResp,
     fatal |-> FALSE, notes |-> EmptyMap, stdout |-> << >>, ret |-> "running",
     stdoutMutex |-> FALSE, encodeErr |-> FALSE]

\* both builds are started on the same stdin with an open context
BothInit ==
    /\ stdin = << >>
    /\ closed = FALSE
    /\ rd = 0
    /\ ctxDone = FALSE
    /\ stdoutOK = TRUE
    /\ pc = "select"
    /\ req = NoReq
    /\ response = NoResp
    /\ fatal = FALSE
    /\ notes = EmptyMap
    /\ stdout = << >>
    /\ answered = << >>
    /\ ret = "running"
    /\ invoked = << >>
    /\ NoService
    /\ NoCallers
    /\ before = EmptyMap
    /\ earlier = NoRun
    /\ mx = TwinStart

\* a step of the second Run leaves the first one alone
TwinStep(to) ==
    /\ mx' = to
    /\ UNCHANGED <<stdin, closed, rd, ctxDone, stdoutOK, pc, req, response, fatal, notes, stdout, answered, ret>>
    /\ UNCHANGED <<invoked, svcVars, lockVars, before, earlier>>

\* select { case <-ctx.Done(): return ctx.Err(); default: ... }
MutexSelect ==
    /\ mx.pc = "select"
    /\ TwinStep(IF ctxDone
                THEN [mx EXCEPT !.pc = "stopped", !.ret = "ctxErr"]
                ELSE [mx EXCEPT !.pc = "decode"])

\* decoder.Decode(&req): io.EOF ends Run with nil, any other error is
\* answered with the parse error, written under the mutex
MutexDecode ==
    /\ mx.pc = "decode"
    /\ IF mx.rd < Len(stdin)
       THEN TwinStep(IF Decodable(stdin[mx.rd + 1])
                     THEN [mx EXCEPT !.rd = mx.rd + 1, !.pc = "handle",
                                     !.req = DecodeRequest(stdin[mx.rd + 1])]
                     ELSE [mx EXCEPT !.rd = mx.rd + 1, !.pc = "lock", !.fatal = TRUE,
                                     !.response = mutexParseErrorResponse(stdin[mx.rd + 1])])
       ELSE /\ closed
            /\ TwinStep([mx EXCEPT !.pc = "stopped", !.ret = "nil"])

\* the envelope checks and s.handleRequest(&req)
MutexHandle ==
    /\ mx.pc = "handle"
    /\ \E ord \in Orders(mx.notes) :
          TwinStep([mx EXCEPT !.pc = "lock",
                              !.response = mutexRespond(mx.req, mx.notes, ord).resp,
                              !.notes = mutexRespond(mx.req, mx.notes, ord).notes])

\* stdoutMutex.Lock(): blocks while the mutex is held
MutexLock ==
    /\ mx.pc = "lock"
    /\ ~mx.stdoutMutex
    /\ TwinStep([mx EXCEPT !.pc = "write", !.stdoutMutex = TRUE])

\* encodeErr := encoder.Encode(response)
MutexEncode ==
    /\ mx.pc = "write"
    /\ TwinStep([mx EXCEPT !.pc = "unlock",
                           !.encodeErr = ~stdoutOK,
                           !.stdout = IF stdoutOK THEN Append(mx.stdout, EncodeResponse(mx.response))
                                      ELSE mx.stdout])

\* stdoutMutex.Unlock(), then the test of encodeErr: the iteration, or Run, ends
MutexUnlock ==
    /\ mx.pc = "unlock"
    /\ TwinStep([mx EXCEPT !.pc = mutexAfterEncode(mx.encodeErr, mx.fatal).pc,
                           !.ret = mutexAfterEncode(mx.encodeErr, mx.fatal).ret,
                           !.stdoutMutex = FALSE,
                           !.encodeErr = FALSE,
                           !.req = NoReq,
                           !.response = NoResp])

\* both builds are between two iterations, after as many messages
Aligned == pc = "select" /\ mx.pc = "select" /\ rd = mx.rd

\* The context is read in the select statement only and the outcome of a
\* write in Encode only: a cancellation or a failure of stdout at any moment
\* acts as one at the start of the next iteration, and there it reaches both
\* builds at the same point of their input.
BothCancel == Aligned /\ Cancel
BothBreakStdout == Aligned /\ BreakStdout

BothMessages ==
    { Garbage,
      Req("2.0", JNum(0, 1), "call_tool", AddNote(NoteA, TextX)),
      Req("2.0", JNum(0, 2), "call_tool", AddNote(NoteB, TextY)),
      Req("2.0", JNum(0, 3), "list_resources", JAbsent),
      Req("1.0", JNum(0, 4), "list_resources", JAbsent),
      Req("2.0", JNum(0, 5), "", JAbsent) }

BothNext ==
    \/ \E m \in BothMessages : Send(m)
    \/ Close
    \/ BothCancel
    \/ BothBreakStdout
    \/ RunSelect
    \/ RunDecode
    \/ RunHandle
    \/ RunEncode
    \/ MutexSelect
    \/ MutexDecode
    \/ MutexHandle
    \/ MutexLock
    \/ MutexEncode
    \/ MutexUnlock

BothSpec == BothInit /\ [][BothNext]_vars

\* ------------------------------------------------------ the service wrapper
\* the operations of a service.Service that handleServiceCommand can invoke
Operations == {"install", "uninstall", "start", "stop", "restart", "status"}

\* service.StatusUnknown, service.StatusRunning, service.StatusStopped
StatusUnknown == 0
StatusRunning == 1
StatusStopped == 2

Pending == [t |-> "pending"]

\* fmt.Errorf(format, ...): an error with the formatted text
Errorf(text) == [t |-> "error", text |-> text]

\* the error a failing operation of the service returns
ServiceError == Errorf(<<"denied">>)

\* one of the five cases that invoke an operation returning only an error:
\* the announcement is printed, the operation invoked, and its error wrapped
\* and returned or its success printed
operationCase(op, announce, what, done, fails) ==
    IF op \in fails
    THEN [calls |-> <<op>>,
          console |-> <<announce>>,
          err |-> Errorf(<<"failed to ", what, " service: ">> \o ServiceError.text)]
    ELSE [calls |-> <<op>>,
          console |-> <<announce, done>>,
          err |-> Nil]

\* case "status": s.Status(), then a line that depends on the status
statusCase(st, fails) ==
    IF "status" \in fails
    THEN [calls |-> <<"status">>,
          console |-> << >>,
          err |-> Errorf(<<"failed to get service status: ">> \o ServiceError.text)]
    ELSE [calls |-> <<"status">>,
          console |-> << CASE st = StatusRunning -> <<"Service is running">>
                           [] st = StatusStopped -> <<"Service is stopped">>
                           [] OTHER -> <<"Service status: ", st>> >>,
          err |-> Nil]

handleServiceCommand_RestartOnlyStops(cmd, st, fails) ==
    CASE cmd = "install" ->
            operationCase("install", "Installing service...", "install",
                          "Service installed successfully", fails)
      [] cmd = "uninstall" ->
            operationCase("uninstall", "Uninstalling service...", "uninstall",
                          "Service uninstalled successfully", fails)
      [] cmd = "start" ->
            operationCase("start", "Starting service...", "start",
                          "Service started successfully", fails)
      [] cmd \in {"stop", "restart"} ->
            operationCase("stop", "Stopping service...", "stop",
                          "Service stopped successfully", fails)
      [] cmd = "status" -> statusCase(st, fails)
      [] OTHER ->
            [calls |-> << >>, console |-> << >>,
             err |-> Errorf(<<"invalid command: ", cmd>>)]

\* handleServiceCommand(s, command) on a service whose operations in fails
\* return an error and whose status is st: the operations invoked, the lines
\* printed and the error returned
handleServiceCommand(cmd, st, fails) ==
    CASE cmd = "install" ->
            operationCase("install", "Installing service...", "install",
                          "Service installed successfully", fails)
      [] cmd = "uninstall" ->
            operationCase("uninstall", "Uninstalling service...", "uninstall",
                          "Service uninstalled successfully", fails)
      [] cmd = "start" ->
            operationCase("start", "Starting service...", "start",
                          "Service started successfully", fails)
      [] cmd = "stop" ->
            operationCase("stop", "Stopping service...", "stop",
                          "Service stopped successfully", fails)
      [] cmd = "restart" ->
            operationCase("restart", "Restarting service...", "restart",
                          "Service restarted successfully", fails)
      [] cmd = "status" -> statusCase(st, fails)
      [] OTHER ->
            [calls |-> << >>, console |-> << >>,
             err |-> Errorf(<<"invalid command: ", cmd>>)]

\* the command lines main is started with: each operation's name, and
\* strings that name none (empty, unknown, another case, a trailing blank)
Commands == Operations \cup {"", "invalid", "Install", "status "}

\* NewServer without Run: the server of a program that has not been started
ServerIdle ==
    /\ stdin = << >>
    /\ closed = FALSE
    /\ rd = 0
    /\ ctxDone = FALSE
    /\ stdoutOK = TRUE
    /\ pc = "idle"
    /\ req = NoReq
    /\ response = NoResp
    /\ fatal = FALSE
    /\ notes = EmptyMap
    /\ stdout = << >>
    /\ answered = << >>
    /\ ret = "running"
    /\ invoked = << >>
    /\ OneRun

\* main with a command-line argument, on a service any of whose operations
\* may fail and which reports any status
CommandInit ==
    /\ ServerIdle
    /\ command \in Commands
    /\ failing \in SUBSET Operations
    /\ status \in {StatusUnknown, StatusRunning, StatusStopped}
    /\ calls = << >>
    /\ console = << >>
    /\ cmdErr = Pending
    /\ runPc = "none"
    /\ startRet = Pending
    /\ stopRet = Pending
    /\ logged = << >>
    /\ NoCallers

\* main calls handleServiceCommand(s, os.Args[1])
HandleCommand ==
    /\ cmdErr = Pending
    /\ calls' = handleServiceCommand(command, status, failing).calls
    /\ console' = handleServiceCommand(command, status, failing).console
    /\ cmdErr' = handleServiceCommand(command, status, failing).err
    /\ UNCHANGED <<command, failing, status, runPc, startRet, stopRet, logged, lockVars>>
    /\ UNCHANGED <<stdin, closed, rd, ctxDone, stdoutOK, pc, req, response, fatal, notes, stdout, answered, ret, invoked, runVars>>

CommandNext == HandleCommand

CommandSpec == CommandInit /\ [][CommandNext]_vars

\* ------------------------------------------------------------ the program
\* main without arguments: s.Run() of the service library starts the program
ProgramInit ==
    /\ ServerIdle
    /\ command = ""
    /\ failing = {}
    /\ status = StatusUnknown
    /\ calls = << >>
    /\ console = << >>
    /\ cmdErr = Pending
    /\ runPc = "none"
    /\ startRet = Pending
    /\ stopRet = Pending
    /\ logged = << >>
    /\ NoCallers

\* program.Start: logs, starts the goroutine of p.run and returns nil
ProgramStart ==
    /\ startRet = Pending
    /\ logged' = Append(logged, <<"Info", "Starting service...">>)
    /\ runPc' = "spawned"
    /\ startRet' = Nil
    /\ UNCHANGED <<command, failing, status, calls, console, cmdErr, stopRet, lockVars>>
    /\ UNCHANGED <<stdin, closed, rd, ctxDone, stdoutOK, pc, req, response, fatal, notes, stdout, answered, ret, invoked, runVars>>

\* program.run, in its goroutine: logs and enters p.srv.Run(p.ctx)
ProgramRun ==
    /\ runPc = "spawned"
    /\ logged' = Append(logged, <<"Info", "Service is now running">>)
    /\ runPc' = "running"
    /\ pc' = "select"
    /\ UNCHANGED <<command, failing, status, calls, console, cmdErr, startRet, stopRet, lockVars>>
    /\ UNCHANGED <<stdin, closed, rd, ctxDone, stdoutOK, req, response, fatal, notes, stdout, answered, ret, invoked, runVars>>

\* program.run after p.srv.Run has returned: an error is logged
ProgramRunReturns ==
    /\ runPc = "running"
    /\ pc = "stopped"
    /\ logged' = IF ret # "nil" THEN Append(logged, <<"Error", ret>>) ELSE logged
    /\ runPc' = "returned"
    /\ UNCHANGED <<command, failing, status, calls, console, cmdErr, startRet, stopRet, lockVars>>
    /\ UNCHANGED <<stdin, closed, rd, ctxDone, stdoutOK, pc, req, response, fatal, notes, stdout, answered, ret, invoked, runVars>>

ProgramStop_ForgetsCancel ==
    /\ startRet = Nil
    /\ stopRet = Pending
    /\ logged' = Append(logged, <<"Info", "Stopping service...">>)
    /\ stopRet' = Nil
    /\ UNCHANGED <<command, failing, status, calls, console, cmdErr, runPc, startRet, lockVars>>
    /\ UNCHANGED <<stdin, closed, rd, ctxDone, stdoutOK, pc, req, response, fatal, notes, stdout, answered, ret, invoked, runVars>>

\* program.Stop, called by the service library on a started program: logs,
\* cancels the context and returns nil
ProgramStop ==
    /\ startRet = Nil
    /\ stopRet = Pending
    /\ logged' = Append(logged, <<"Info", "Stopping service...">>)
    /\ ctxDone' = TRUE
    /\ stopRet' = Nil
    /\ UNCHANGED <<command, failing, status, calls, console, cmdErr, runPc, startRet, lockVars>>
    /\ UNCHANGED <<stdin, closed, rd, stdoutOK, pc, req, response, fatal, notes, stdout, answered, ret, invoked, runVars>>

ProgramNext ==
    \/ ProgramStart
    \/ ProgramRun
    \/ ProgramRunReturns
    \/ ProgramStop
    \/ \E m \in LiveMessages : Send(m)
    \/ Close
    \/ RunSelect
    \/ RunDecode
    \/ RunHandle
    \/ RunEncode

ProgramSpec == ProgramInit /\ [][ProgramNext]_vars

\* ------------------------------------------- the registry called concurrently
\* The host calls the registry of one Server from goroutines of its own.
\* Each statement of an operation that touches s.notesMap, s.notes or
\* os.Stderr is a step.
MaxCallers == 2

Callers == 1..MaxCallers

Invocation(op, name, arguments, uri) ==
    [op |-> op, name |-> name, arguments |-> arguments, uri |-> uri]

NoInvocation == Invocation("none", << >>, << >>, << >>)

\* what the callers invoke: the listing, a read that reaches the map and one
\* that fails before, a prompt, add-note calls for one name with two
\* contents and for another name, and one that is rejected
Invocations ==
    { Invocation("ListResources", << >>, << >>, << >>),
      Invocation("ReadResource", << >>, << >>, NoteURI(NoteA)),
      Invocation("ReadResource", << >>, << >>, <<"http", ":", "/", "/", "x", "/", "a">>),
      Invocation("GetPrompt", <<"summarize-notes">>, [style |-> <<"detailed">>], << >>),
      Invocation("CallTool", <<"add-note">>, [name |-> GoString(NoteA), content |-> GoString(TextX)], << >>),
      Invocation("CallTool", <<"add-note">>, [name |-> GoString(NoteA), content |-> GoString(TextY)], << >>),
      Invocation("CallTool", <<"add-note">>, [name |-> GoString(NoteB), content |-> GoString(TextY)], << >>),
      Invocation("CallTool", <<"add-note">>, [name |-> GoString(NoteA), content |-> GoString(<< >>)], << >>) }

\* NewServer, or a server on which CallTool has stored the note "a" and
\* returned; no caller has invoked anything yet
ConcurrentInit ==
    /\ stdin = << >>
    /\ closed = FALSE
    /\ rd = 0
    /\ ctxDone = FALSE
    /\ stdoutOK = TRUE
    /\ pc = "idle"
    /\ req = NoReq
    /\ response = NoResp
    /\ fatal = FALSE
    /\ stdout = << >>
    /\ answered = << >>
    /\ ret = "running"
    /\ invoked = << >>
    /\ OneRun
    /\ NoService
    /\ callPc = [c \in Callers |-> "idle"]
    /\ callOp = [c \in Callers |-> NoInvocation]
    /\ callRet = [c \in Callers |-> Nil]
    /\ callSeen = [c \in Callers |-> << >>]
    /\ rwReaders = {}
    /\ rwWriter = 0
    /\ rwLocked = FALSE
    /\ \/ /\ notes = EmptyMap
          /\ stderr = << >>
       \/ /\ notes = SetNote(EmptyMap, NoteA, TextX)
          /\ stderr = << <<"Calling tool ">> \o <<"add-note">>,
                         <<"Added note '">> \o NoteA \o <<"'">> >>

\* a step of caller c: it moves to position to; the server's loop and the
\* service wrapper are not involved
Step(c, to) ==
    /\ callPc' = [callPc EXCEPT ![c] = to]
    /\ UNCHANGED <<stdin, closed, rd, ctxDone, stdoutOK, pc, req, response, fatal, stdout, answered, ret, invoked, runVars, svcVars>>

Invoke(c, inv) ==
    /\ callPc[c] = "idle"
    /\ callOp' = [callOp EXCEPT ![c] = inv]
    /\ Step(c, "entry")
    /\ UNCHANGED <<callSeen, callRet, rwReaders, rwWriter, rwLocked, stderr, notes>>

\* s.notesMap.RLock(): blocks while a writer holds the lock or waits for it
RLock(c, to) ==
    /\ rwWriter = 0
    /\ rwReaders' = rwReaders \cup {c}
    /\ Step(c, to)
    /\ UNCHANGED <<callSeen, callOp, callRet, rwWriter, rwLocked, stderr, notes>>

\* s.notesMap.RUnlock()
RUnlock(c, to) ==
    /\ rwReaders' = rwReaders \ {c}
    /\ Step(c, to)
    /\ UNCHANGED <<callSeen, callOp, callRet, rwWriter, rwLocked, stderr, notes>>

\* the names a range has visited, in the order of the visits, and the
\* entries it has seen under them
SeenNames(seen) == [i \in DOMAIN seen |-> seen[i][1]]

SeenNotes(seen) ==
    [n \in {seen[i][1] : i \in DOMAIN seen} |->
        seen[CHOOSE i \in DOMAIN seen : seen[i][1] = n][2]]

\* one iteration of `for name, content := range s.notes`: an entry of the
\* map that the range has not visited, whichever the runtime yields
Visit(c) ==
    /\ \E n \in DOMAIN notes \ DOMAIN SeenNotes(callSeen[c]) :
          callSeen' = [callSeen EXCEPT ![c] = Append(@, <<n, notes[n]>>)]
    /\ Step(c, "range")
    /\ UNCHANGED <<callOp, callRet, rwReaders, rwWriter, rwLocked, stderr, notes>>

\* the range has no entry left to visit
Visited(c) == DOMAIN notes \subseteq DOMAIN SeenNotes(callSeen[c])

\* the next statement of caller c reads s.notes (len, range or index)
AtRead(c) == callPc[c] \in {"loglen", "range", "get"}

\* the next statement of caller c writes s.notes
AtWrite(c) == callPc[c] = "set"

\* the write of caller c races with an access of another goroutine
Racing(c) == \E d \in Callers \ {c} : AtRead(d) \/ AtWrite(d)

\* fmt.Fprintf(os.Stderr, ...)
Fprintf(line) == stderr' = Append(stderr, line)

\* ListResources: s.notesMap.RLock(); defer s.notesMap.RUnlock()
ListRLock(c) ==
    /\ callPc[c] = "entry" /\ callOp[c].op = "ListResources"
    /\ RLock(c, "loglen")

\* ListResources: fmt.Fprintf(os.Stderr, "Listing %d resources\n", len(s.notes))
ListLog(c) ==
    /\ callPc[c] = "loglen"
    /\ Fprintf(<<"Listing ", Cardinality(DOMAIN notes), " resources">>)
    /\ Step(c, "range")
    /\ UNCHANGED <<callSeen, callOp, callRet, rwReaders, rwWriter, rwLocked, notes>>

\* ListResources: make(..., len(s.notes)) and one iteration of the range
\* over s.notes
ListRangeNext(c) ==
    /\ callPc[c] = "range" /\ callOp[c].op = "ListResources"
    /\ Visit(c)

\* ListResources: the range over s.notes ends; resources holds what it visited
ListRangeEnd(c) ==
    /\ callPc[c] = "range" /\ callOp[c].op = "ListResources"
    /\ Visited(c)
    /\ callRet' = [callRet EXCEPT ![c] =
                      [err |-> << >>,
                       result |-> ListResources(SeenNotes(callSeen[c]), SeenNames(callSeen[c]))]]
    /\ callSeen' = [callSeen EXCEPT ![c] = << >>]
    /\ Step(c, "runlock")
    /\ UNCHANGED <<callOp, rwReaders, rwWriter, rwLocked, stderr, notes>>

\* ListResources returns: the deferred RUnlock runs
ListReturn(c) ==
    /\ callPc[c] = "runlock" /\ callOp[c].op = "ListResources"
    /\ RUnlock(c, "done")

\* ReadResource up to the lock: url.Parse, the scheme check and one line on
\* os.Stderr; it returns here when the URI is not a note:// URI
ReadEntry(c) ==
    /\ callPc[c] = "entry" /\ callOp[c].op = "ReadResource"
    /\ LET uri == callOp[c].uri
           parsedURI == UrlParse(uri)
       IN  IF parsedURI.err # << >>
           THEN /\ Fprintf(<<"Failed to parse URI ">> \o uri \o <<": ">> \o UrlErrorText(uri, parsedURI.err))
                /\ callRet' = [callRet EXCEPT ![c] = readParsed(notes, uri, parsedURI)]
                /\ Step(c, "done")
           ELSE IF parsedURI.Scheme # <<"note">>
           THEN /\ Fprintf(<<"Unsupported URI scheme: ">> \o parsedURI.Scheme)
                /\ callRet' = [callRet EXCEPT ![c] = readParsed(notes, uri, parsedURI)]
                /\ Step(c, "done")
           ELSE /\ Fprintf(<<"Reading resource: ">>
                           \o (IF parsedURI.Path # << >> THEN Tail(parsedURI.Path) ELSE << >>))
                /\ UNCHANGED callRet
                /\ Step(c, "rlock")
    /\ UNCHANGED <<callSeen, callOp, rwReaders, rwWriter, rwLocked, notes>>

ReadRLock_SkipsLock(c) ==
    /\ callPc[c] = "rlock" /\ callOp[c].op = "ReadResource"
    /\ Step(c, "get")
    /\ UNCHANGED <<callSeen, callOp, callRet, rwReaders, rwWriter, rwLocked, stderr, notes>>

\* ReadResource: s.notesMap.RLock()
ReadRLock(c) ==
    /\ callPc[c] = "rlock" /\ callOp[c].op = "ReadResource"
    /\ RLock(c, "get")

\* ReadResource: content, ok := s.notes[name]
ReadGet(c) ==
    /\ callPc[c] = "get"
    /\ callRet' = [callRet EXCEPT ![c] = readParsed(notes, callOp[c].uri, UrlParse(callOp[c].uri))]
    /\ Step(c, "runlock")
    /\ UNCHANGED <<callSeen, callOp, rwReaders, rwWriter, rwLocked, stderr, notes>>

\* ReadResource: s.notesMap.RUnlock()
ReadRUnlock(c) ==
    /\ callPc[c] = "runlock" /\ callOp[c].op = "ReadResource"
    /\ RUnlock(c, "after")

\* ReadResource after the lock: a line on os.Stderr when the note is missing
ReadAfter(c) ==
    /\ callPc[c] = "after" /\ callOp[c].op = "ReadResource"
    /\ IF callRet[c].err # << >>
       THEN Fprintf(<<"Note not found: ">> \o Tail(UrlParse(callOp[c].uri).Path))
       ELSE UNCHANGED stderr
    /\ Step(c, "done")
    /\ UNCHANGED <<callSeen, callOp, callRet, rwReaders, rwWriter, rwLocked, notes>>

\* GetPrompt up to the lock: one line on os.Stderr and the name check
PromptEntry(c) ==
    /\ callPc[c] = "entry" /\ callOp[c].op = "GetPrompt"
    /\ Fprintf(<<"Getting prompt ">> \o callOp[c].name)
    /\ IF callOp[c].name # <<"summarize-notes">>
       THEN /\ callRet' = [callRet EXCEPT ![c] = GetPrompt(notes, << >>, callOp[c].name, callOp[c].arguments)]
            /\ Step(c, "done")
       ELSE /\ UNCHANGED callRet
            /\ Step(c, "rlock")
    /\ UNCHANGED <<callSeen, callOp, rwReaders, rwWriter, rwLocked, notes>>

PromptRLock_SkipsLock(c) ==
    /\ callPc[c] = "rlock" /\ callOp[c].op = "GetPrompt"
    /\ Step(c, "range")
    /\ UNCHANGED <<callSeen, callOp, callRet, rwReaders, rwWriter, rwLocked, stderr, notes>>

\* GetPrompt: s.notesMap.RLock()
PromptRLock(c) ==
    /\ callPc[c] = "rlock" /\ callOp[c].op = "GetPrompt"
    /\ RLock(c, "range")

\* GetPrompt: one iteration of the range over s.notes that builds notesList
PromptRangeNext(c) ==
    /\ callPc[c] = "range" /\ callOp[c].op = "GetPrompt"
    /\ Visit(c)

\* GetPrompt: the range over s.notes ends; notesList holds what it visited
PromptRangeEnd(c) ==
    /\ callPc[c] = "range" /\ callOp[c].op = "GetPrompt"
    /\ Visited(c)
    /\ callRet' = [callRet EXCEPT ![c] =
                      GetPrompt(SeenNotes(callSeen[c]), SeenNames(callSeen[c]),
                                callOp[c].name, callOp[c].arguments)]
    /\ callSeen' = [callSeen EXCEPT ![c] = << >>]
    /\ Step(c, "runlock")
    /\ UNCHANGED <<callOp, rwReaders, rwWriter, rwLocked, stderr, notes>>

\* GetPrompt: s.notesMap.RUnlock()
PromptRUnlock(c) ==
    /\ callPc[c] = "runlock" /\ callOp[c].op = "GetPrompt"
    /\ RUnlock(c, "after")

\* GetPrompt after the lock: one line on os.Stderr
PromptAfter(c) ==
    /\ callPc[c] = "after" /\ callOp[c].op = "GetPrompt"
    /\ Fprintf(<<"Generated prompt with style: ">>
               \o (IF "style" \in DOMAIN callOp[c].arguments /\ callOp[c].arguments["style"] # << >>
                   THEN callOp[c].arguments["style"] ELSE <<"brief">>))
    /\ Step(c, "done")
    /\ UNCHANGED <<callSeen, callOp, callRet, rwReaders, rwWriter, rwLocked, notes>>

\* CallTool up to the argument checks: one line on os.Stderr and the tool name
ToolEntry(c) ==
    /\ callPc[c] = "entry" /\ callOp[c].op = "CallTool"
    /\ Fprintf(<<"Calling tool ">> \o callOp[c].name)
    /\ IF callOp[c].name # <<"add-note">>
       THEN /\ callRet' = [callRet EXCEPT ![c] =
                              [err |-> CallTool(notes, callOp[c].name, callOp[c].arguments).err]]
            /\ Step(c, "done")
       ELSE /\ UNCHANGED callRet
            /\ Step(c, IF CallTool(notes, callOp[c].name, callOp[c].arguments).err # << >>
                       THEN "fail" ELSE "lock")
    /\ UNCHANGED <<callSeen, callOp, rwReaders, rwWriter, rwLocked, notes>>

\* CallTool: a name or a content that is missing, not a string or empty is
\* reported on os.Stderr and returned as an error
ToolFail(c) ==
    /\ callPc[c] = "fail"
    /\ Fprintf(IF ~IsNonEmptyString(callOp[c].arguments, "name")
               THEN <<"Missing or invalid name argument">>
               ELSE <<"Missing or invalid content argument">>)
    /\ callRet' = [callRet EXCEPT ![c] =
                      [err |-> CallTool(notes, callOp[c].name, callOp[c].arguments).err]]
    /\ Step(c, "done")
    /\ UNCHANGED <<callSeen, callOp, rwReaders, rwWriter, rwLocked, notes>>

ToolLock_SkipsLock(c) ==
    /\ callPc[c] = "lock"
    /\ Step(c, "set")
    /\ UNCHANGED <<callSeen, callOp, callRet, rwReaders, rwWriter, rwLocked, stderr, notes>>

\* CallTool: s.notesMap.Lock() is called; from now on RLock blocks
ToolLock(c) ==
    /\ callPc[c] = "lock"
    /\ rwWriter = 0
    /\ rwWriter' = c
    /\ Step(c, "locking")
    /\ UNCHANGED <<callSeen, callOp, callRet, rwReaders, rwLocked, stderr, notes>>

\* CallTool: Lock() returns once the readers have left
ToolLocked(c) ==
    /\ callPc[c] = "locking"
    /\ rwReaders = {}
    /\ rwLocked' = TRUE
    /\ Step(c, "set")
    /\ UNCHANGED <<callSeen, callOp, callRet, rwReaders, rwWriter, stderr, notes>>

\* CallTool: s.notes[noteName] = content.  A map write that races with
\* another access is undefined: the entry is stored, the write is lost, or
\* the runtime ends the process ("concurrent map writes").
ToolSet(c) ==
    /\ callPc[c] = "set"
    /\ \E outcome \in (IF Racing(c) THEN {"stored", "lost", "fatal"} ELSE {"stored"}) :
          /\ notes' = IF outcome = "stored"
                      THEN SetNote(notes, callOp[c].arguments["name"].s, callOp[c].arguments["content"].s)
                      ELSE notes
          /\ callPc' = IF outcome = "fatal"
                       THEN [d \in Callers |-> "crashed"]
                       ELSE [callPc EXCEPT ![c] = "unlock"]
    /\ UNCHANGED <<stdin, closed, rd, ctxDone, stdoutOK, pc, req, response, fatal, stdout, answered, ret, invoked, runVars, svcVars>>
    /\ UNCHANGED <<callSeen, callOp, callRet, rwReaders, rwWriter, rwLocked, stderr>>

\* CallTool: s.notesMap.Unlock()
ToolUnlock(c) ==
    /\ callPc[c] = "unlock"
    /\ rwWriter' = 0
    /\ rwLocked' = FALSE
    /\ Step(c, "after")
    /\ UNCHANGED <<callSeen, callOp, callRet, rwReaders, stderr, notes>>

\* CallTool after the lock: one line on os.Stderr, and the result
ToolAfter(c) ==
    /\ callPc[c] = "after" /\ callOp[c].op = "CallTool"
    /\ Fprintf(<<"Added note '">> \o callOp[c].arguments["name"].s \o <<"'">>)
    /\ callRet' = [callRet EXCEPT ![c] =
                      [err |-> << >>,
                       result |-> CallTool(notes, callOp[c].name, callOp[c].arguments).result]]
    /\ Step(c, "done")
    /\ UNCHANGED <<callSeen, callOp, rwReaders, rwWriter, rwLocked, notes>>

ConcurrentNext ==
    \E c \in Callers :
        \/ \E inv \in Invocations : Invoke(c, inv)
        \/ ListRLock(c)
        \/ ListLog(c)
        \/ ListRangeNext(c)
        \/ ListRangeEnd(c)
        \/ ListReturn(c)
        \/ ReadEntry(c)
        \/ ReadRLock(c)
        \/ ReadGet(c)
        \/ ReadRUnlock(c)
        \/ ReadAfter(c)
        \/ PromptEntry(c)
        \/ PromptRLock(c)
        \/ PromptRangeNext(c)
        \/ PromptRangeEnd(c)
        \/ PromptRUnlock(c)
        \/ PromptAfter(c)
        \/ ToolEntry(c)
        \/ ToolFail(c)
        \/ ToolLock(c)
        \/ ToolLocked(c)
        \/ ToolSet(c)
        \/ ToolUnlock(c)
        \/ ToolAfter(c)

ConcurrentSpec == ConcurrentInit /\ [][ConcurrentNext]_vars

\* ================================================================= claims
NoteNames == {NoteA, NoteB}
Texts == {TextX, TextY}

\* every note map over the names and texts the messages mention
AllStores == UNION {[D -> Texts] : D \in SUBSET NoteNames}

\* the response on the wire to message msg when the note map is n
Reply(msg, n, ord) ==
    IF Decodable(msg) THEN EncodeResponse(respond(DecodeRequest(msg), n, ord).resp)
    ELSE EncodeResponse(parseErrorResponse(msg))

\* wire is a response to msg in some state of the note map
Fits(msg, wire) == \E n \in AllStores : \E ord \in Orders(n) : wire = Reply(msg, n, ord)

\* a JSON id and the id of the response to it are equal (an absent id
\* counts as null)
SameId(reqId, respId) == IF reqId.t = "absent" THEN respId.t = "null" ELSE respId = reqId

IsError(wire, code) == wire.error.t = "RPCError" /\ wire.error.Code = code /\ wire.result.t = "absent"

\* Run is done with the k-th message: it has been decoded and Run is no
\* longer handling or answering it
DoneWith(k) == k < rd \/ (k = rd /\ pc \in {"select", "decode", "stopped"})

\* C1: when Run ends without a cancellation and without a write failure,
\* having decoded only decodable messages, the input has ended and Run has
\* written exactly one response per message; and at any time the k-th
\* response written answers the k-th message received.
C1_OneResponsePerRequestInOrder ==
    /\ \A k \in 1..Len(stdout) : answered[k] = k /\ Fits(stdin[k], stdout[k])
    /\ (pc = "stopped" /\ ret \notin {"ctxErr", "encodeErr"}
            /\ \A k \in 1..rd : Decodable(stdin[k]))
        => (ret = "nil" /\ closed /\ rd = Len(stdin) /\ Len(stdout) = Len(stdin))

\* three requests of different fates were answered and Run ended on EOF
C1_Witness ==
    /\ ret = "nil"
    /\ Len(stdout) >= 3
    /\ \E i, j, k \in 1..Len(stdout) :
          /\ stdout[i].result.t # "absent"
          /\ IsError(stdout[j], ErrInvalidReq)
          /\ IsError(stdout[k], ErrMethodNotFound)

\* C2: every response written for a decoded request carries that request's id.
C2_ResponseIdEqualsRequestId ==
    \A k \in 1..Len(stdout) :
        Decodable(stdin[answered[k]]) => SameId(stdin[answered[k]].id, stdout[k].id)

\* C3: every response written, and every response Run is about to write,
\* has exactly one of result and error.
C3_ExactlyOneOfResultOrError ==
    /\ \A k \in 1..Len(stdout) : (stdout[k].result.t = "absent") # (stdout[k].error.t = "absent")
    /\ pc = "encode" => (response.Result.t = "nil") # (response.Error.t = "nil")

\* list_resources was answered on the empty note map, and an error was written
C3_Witness ==
    /\ \E k \in 1..Len(stdout) : stdout[k].result.t = "Resources" /\ Len(stdout[k].result.v) = 0
    /\ \E k \in 1..Len(stdout) : stdout[k].error.t = "RPCError"
    /\ \E k \in 1..Len(stdout) : stdout[k].result.t = "TextContents"

IsParseError(wire) == IsError(wire, ErrParse) /\ wire.id.t = "null"

\* the responses written for the message at position k
AnswersTo(k) == {i \in 1..Len(answered) : answered[i] = k}

\* C4 as claimed: once Run has stopped on an undecodable message it has
\* written exactly one parse error for it and returns the decode failure.
C4_ParseErrorThenDecodeFailure ==
    (pc = "stopped" /\ fatal) =>
        /\ ret = "decodeErr"
        /\ Cardinality(AnswersTo(rd)) = 1
        /\ IsParseError(stdout[Len(stdout)])

\* C4 amended: once Run has stopped on an undecodable message, either it has
\* written exactly one parse error (code -32700, null id) for it and returns
\* the decode failure, or that write failed, nothing was written for it and
\* Run returns the write failure; from the moment the message is decoded no
\* further message is decoded, and after the stop nothing more is written.
C4_ParseErrorThenStop ==
    /\ [](pc = "stopped" /\ fatal =>
            \/ /\ ret = "decodeErr"
               /\ Cardinality(AnswersTo(rd)) = 1
               /\ answered[Len(answered)] = rd
               /\ IsParseError(stdout[Len(stdout)])
            \/ /\ ret = "encodeErr"
               /\ ~stdoutOK
               /\ AnswersTo(rd) = {})
    /\ [][fatal => /\ rd' = rd
                   /\ notes' = notes
                   /\ pc = "stopped" => UNCHANGED <<pc, ret, stdout, fatal>>]_vars

\* Run answered a request, then stopped on an undecodable message while a
\* later message was waiting on stdin
C4_Witness ==
    /\ pc = "stopped" /\ fatal /\ ret = "decodeErr"
    /\ Len(stdout) >= 2
    /\ rd < Len(stdin)

\* the message is decodable and its jsonrpc field is not "2.0"
BadVersion(msg) == Decodable(msg) /\ msg.jsonrpc # "2.0"

\* the message is decodable, has version "2.0" and an empty method
EmptyMethod(msg) == Decodable(msg) /\ msg.jsonrpc = "2.0" /\ msg.method = ""

\* the subsequence of s at the positions k where keep[k] holds
RECURSIVE Pick(_, _, _)
Pick(s, keep, k) ==
    IF k > Len(s) THEN << >>
    ELSE (IF keep[k] THEN <<s[k]>> ELSE << >>) \o Pick(s, keep, k + 1)

\* the sequences of responses a run started on note map n can write for the
\* messages msgs
RECURSIVE Outputs(_, _)
Outputs(msgs, n) ==
    IF msgs = << >> THEN {<< >>}
    ELSE LET msg == Head(msgs) IN
         IF ~Decodable(msg) THEN {<<Reply(msg, n, << >>)>>}
         ELSE UNION { { <<EncodeResponse(respond(DecodeRequest(msg), n, ord).resp)>> \o t :
                          t \in Outputs(Tail(msgs), respond(DecodeRequest(msg), n, ord).notes) } :
                      ord \in Orders(n) }

\* C5 (in runs where the write of the response succeeds): a decoded message
\* whose version is not "2.0" gets exactly one -32600 response carrying its
\* id, Run goes on to the next iteration, and the responses to the other
\* messages are those of a run that never received the rejected ones.
C5_BadVersionRejectedLoopContinues ==
    /\ \A k \in 1..rd :
         (BadVersion(stdin[k]) /\ DoneWith(k) /\ (k = rd => ret # "encodeErr")) =>
            /\ k <= Len(stdout)
            /\ AnswersTo(k) = {k}
            /\ IsError(stdout[k], ErrInvalidReq)
            /\ stdout[k].error.Message = "invalid JSON-RPC version"
            /\ SameId(stdin[k].id, stdout[k].id)
            /\ (k = rd /\ pc = "stopped") => ret \in {"ctxErr", "nil"}
    /\ LET keep == [k \in 1..Len(stdout) |-> ~BadVersion(stdin[k])]
       IN  Pick(stdout, keep, 1) \in Outputs(Pick(SubSeq(stdin, 1, Len(stdout)), keep, 1), EmptyMap)

\* C6 (in runs where the write of the response succeeds): a decoded message
\* with version "2.0" and an empty method gets exactly one -32600 'method is
\* required' response carrying its id, and Run goes on to the next iteration.
C6_EmptyMethodRejectedLoopContinues ==
    \A k \in 1..rd :
        (EmptyMethod(stdin[k]) /\ DoneWith(k) /\ (k = rd => ret # "encodeErr")) =>
            /\ k <= Len(stdout)
            /\ AnswersTo(k) = {k}
            /\ IsError(stdout[k], ErrInvalidReq)
            /\ stdout[k].error.Message = "method is required"
            /\ SameId(stdin[k].id, stdout[k].id)
            /\ (k = rd /\ pc = "stopped") => ret \in {"ctxErr", "nil"}

\* C7: Run returns nil exactly when Decode meets the end of input, and that
\* step writes no response and leaves the note map alone.
C7_NilOnlyOnEndOfInput ==
    [][/\ (ret' = "nil" /\ ret # "nil") =>
            (pc = "decode" /\ closed /\ rd = Len(stdin) /\ UNCHANGED <<rd, stdout, answered, notes>>)
       /\ (pc = "decode" /\ pc' # "decode" /\ rd = Len(stdin)) =>
            (pc' = "stopped" /\ ret' = "nil" /\ UNCHANGED <<rd, stdout, answered, notes>>)
       /\ (ret' # ret) => (ret = "running" /\ pc' = "stopped")]_vars

\* Run returned nil after answering two requests
C7_Witness == ret = "nil" /\ Len(stdout) >= 2 /\ Len(stdout) = Len(stdin)

\* C8: an iteration that begins with the context cancelled returns the
\* cancellation error without decoding, writing or touching the note map.
C8_CancelledAtIterationStart ==
    [][(pc = "select" /\ ctxDone /\ pc' # pc) =>
          (pc' = "stopped" /\ ret' = "ctxErr" /\ UNCHANGED <<rd, stdout, answered, notes>>)]_vars

\* Run returned the cancellation error with a message still waiting on stdin,
\* after a note had been stored
C8_Witness ==
    /\ ret = "ctxErr" /\ pc = "stopped"
    /\ rd < Len(stdin)
    /\ Len(stdout) >= 1
    /\ DOMAIN notes # {}

\* C10: a failed write of any response makes Run stop at once with the write
\* failure, and after that no message is decoded and nothing is written.
C10_WriteFailureIsFatal ==
    [][/\ (pc = "encode" /\ ~stdoutOK /\ pc' # pc) =>
            (pc' = "stopped" /\ ret' = "encodeErr" /\ UNCHANGED <<rd, stdout, answered, notes>>)
       /\ ret = "encodeErr" => UNCHANGED <<pc, ret, rd, stdout, answered, notes>>
       /\ (ret' = "encodeErr" /\ ret # "encodeErr") => (pc = "encode" /\ ~stdoutOK)]_vars

\* the write of a parse error failed, and so did the write of a result, with
\* a message still waiting on stdin
C10_Witness ==
    /\ ret = "encodeErr" /\ pc = "stopped"
    /\ rd < Len(stdin)
    /\ Len(stdout) >= 1

\* Decode is waiting for input that has not come: no message is pending and
\* stdin is still open
BlockedInDecode == pc = "decode" /\ rd = Len(stdin) /\ ~closed

ValidAdd(msg) ==
    /\ Decodable(msg) /\ msg.jsonrpc = "2.0" /\ msg.method = "call_tool"
    /\ msg.params.t = "obj"
    /\ "name" \in DOMAIN msg.params.m /\ msg.params.m["name"] = JStr(<<"add-note">>)
    /\ "arguments" \in DOMAIN msg.params.m /\ msg.params.m["arguments"].t = "obj"
    /\ \A f \in {"name", "content"} :
          /\ f \in DOMAIN msg.params.m["arguments"].m
          /\ msg.params.m["arguments"].m[f].t = "str"
          /\ msg.params.m["arguments"].m[f].s # << >>

AddName(msg) == msg.params.m["arguments"].m["name"].s
AddContent(msg) == msg.params.m["arguments"].m["content"].s

\* the notes a client has stored with the first k messages it sent: for each
\* name the content of the latest accepted add-note call
RECURSIVE Added(_)
Added(k) ==
    IF k = 0 THEN [x \in {} |-> << >>]
    ELSE IF ValidAdd(stdin[k])
    THEN [x \in DOMAIN Added(k - 1) \cup {AddName(stdin[k])} |->
             IF x = AddName(stdin[k]) THEN AddContent(stdin[k]) ELSE Added(k - 1)[x]]
    ELSE Added(k - 1)

\* msg is a well-formed request for method with a params object
IsCall(msg, method) ==
    Decodable(msg) /\ msg.jsonrpc = "2.0" /\ msg.method = method

\* msg is a read_resource request for uri
IsRead(msg, uri) == IsCall(msg, "read_resource") /\ msg.params = ReadURI(uri)

\* Run has handled the message at position rd and is about to write response
Handled == pc = "encode" /\ ~fatal

\* C11: after add-note calls, list_resources returns exactly one Resource per
\* added name, with the URI note://internal/<name>, and read_resource of the
\* URI of an added name returns that note's content.
C11_AddedNotesListedAndReadable ==
    Handled =>
        /\ IsCall(stdin[rd], "list_resources") =>
              /\ response.Error = Nil
              /\ response.Result.t = "Resources"
              /\ Len(response.Result.v) = Cardinality(DOMAIN Added(rd - 1))
              /\ {response.Result.v[i].URI : i \in DOMAIN response.Result.v}
                    = {NoteURI(n) : n \in DOMAIN Added(rd - 1)}
        /\ \A n \in DOMAIN Added(rd - 1) :
              IsRead(stdin[rd], NoteURI(n)) =>
                  /\ response.Error = Nil
                  /\ response.Result = GoString(Added(rd - 1)[n])

\* the number of messages Run has finished handling
HandledCount == IF pc = "handle" THEN rd - 1 ELSE rd

\* C12: the Store holds, for each name added, one entry with the content of
\* the most recent accepted add-note call for it; read_resource of the name's
\* URI returns that content, and a listing shows the name once.
C12_LastWriterWins ==
    /\ notes = Added(HandledCount)
    /\ Handled =>
        /\ \A n \in DOMAIN Added(rd - 1) :
              IsRead(stdin[rd], NoteURI(n)) => response.Result = GoString(Added(rd - 1)[n])
        /\ IsCall(stdin[rd], "list_resources") =>
              \A n \in DOMAIN Added(rd - 1) :
                  Cardinality({i \in DOMAIN response.Result.v :
                                  response.Result.v[i].URI = NoteURI(n)}) = 1

\* ------------------------------------------- claims about the dispatcher
\* the methods that need parameters
ParamMethods == {"read_resource", "get_prompt", "call_tool"}

\* the methods of the dispatch table
KnownMethods == {"list_resources", "read_resource", "list_prompts", "get_prompt", "list_tools", "call_tool"}

\* the step in which Run handles the message at position rd
Handling == pc = "handle" /\ pc' = "encode"

\* C13: a read_resource, get_prompt or call_tool request without a params
\* member is answered with -32602 'params required' and the Store is
\* unchanged; with params that are null or not an object the answer is still
\* a -32602 error and the Store is unchanged.
C13_MissingParamsRejected ==
    [][(Handling /\ stdin[rd].jsonrpc = "2.0" /\ stdin[rd].method \in ParamMethods
            /\ stdin[rd].params.t # "obj") =>
          /\ notes' = notes
          /\ IsError(EncodeResponse(response'), ErrInvalidParams)
          /\ stdin[rd].params = JAbsent =>
                /\ response'.Error.Message = "params required"
                /\ response'.Error.Data = <<"params required">>]_vars

\* with a note stored, each of the three methods was called without params
\* and answered 'params required'
C13_Witness ==
    /\ DOMAIN notes # {}
    /\ Len(stdout) >= 2
    /\ stdin[1].method = "call_tool" /\ stdout[1].result.t = "TextContents"
    /\ stdin[2].method \in ParamMethods /\ stdin[2].params = JAbsent
    /\ IsError(stdout[2], ErrInvalidParams) /\ stdout[2].error.Message = "params required"

\* C14: a request whose method is not empty and not in the dispatch table is
\* answered with -32601 and the Store is unchanged.
C14_UnknownMethodRejected ==
    [][(Handling /\ stdin[rd].jsonrpc = "2.0" /\ stdin[rd].method \notin KnownMethods \cup {""}) =>
          /\ notes' = notes
          /\ IsError(EncodeResponse(response'), ErrMethodNotFound)
          /\ response'.Error.Message = "method not found"]_vars

\* with a note stored, an unknown method carrying the params of an add-note
\* call was answered with -32601 and a later listing shows the one note
C14_Witness ==
    /\ Len(stdout) = 3
    /\ stdout[1].result.t = "TextContents"
    /\ stdin[2].method = "bogus" /\ stdin[2].params = AddNote(NoteB, TextY)
    /\ IsError(stdout[2], ErrMethodNotFound)
    /\ stdout[3].result.t = "Resources" /\ Len(stdout[3].result.v) = 1

\* ---------------------------------------------- claims about read_resource
\* msg is a read_resource request with a non-empty string uri
IsReadRequest(msg) ==
    /\ IsCall(msg, "read_resource")
    /\ msg.params.t = "obj"
    /\ "uri" \in DOMAIN msg.params.m
    /\ msg.params.m["uri"].t = "str"
    /\ msg.params.m["uri"].s # << >>

UriOf(msg) == msg.params.m["uri"].s

\* the URI parses and its scheme is not "note" (a URI without a scheme has
\* the empty scheme)
OtherScheme(uri) == UrlParse(uri).err = << >> /\ UrlParse(uri).Scheme # <<"note">>

\* C15: read_resource of a URI that parses and whose scheme is not "note" is
\* answered with -32002 whatever the Store holds.
C15_OtherSchemeUnsupported ==
    (Handled /\ IsReadRequest(stdin[rd]) /\ OtherScheme(UriOf(stdin[rd]))) =>
        /\ IsError(EncodeResponse(response), ErrUnsupported)
        /\ response.Error.Message = "unsupported URI scheme"

\* the note "a" is stored and the read of http://x/a was answered with -32002
C15_Witness ==
    /\ Len(stdout) >= 2
    /\ NoteA \in DOMAIN notes
    /\ stdout[1].result.t = "TextContents"
    /\ IsRead(stdin[2], <<"http", ":", "/", "/", "x", "/", "a">>)
    /\ IsError(stdout[2], ErrUnsupported)

\* the well-formed note:// URIs a client reads, each with the name it
\* addresses: the path without its leading "/" (a "?" starts the query)
NoteURIs ==
    { <<NoteURI(NoteA), NoteA>>, <<NoteURI(NoteB), NoteB>>, <<NoteURI(NoteQ), NoteA>> }

\* C16: read_resource of a well-formed note:// URI is answered with -32001
\* as long as no add-note for the name it addresses has succeeded, and with
\* the content once one has.
C16_MissingNoteNotFound ==
    Handled =>
        \A p \in NoteURIs :
            IsRead(stdin[rd], p[1]) =>
                IF p[2] \in DOMAIN Added(rd - 1)
                THEN response.Error = Nil /\ response.Result = GoString(Added(rd - 1)[p[2]])
                ELSE /\ IsError(EncodeResponse(response), ErrNotFound)
                     /\ response.Error.Message = "note not found"

\* the read of note "b" failed with -32001, then "b" was added, then the same
\* read returned the content
C16_Witness ==
    /\ Len(stdout) = 3
    /\ IsRead(stdin[1], NoteURI(NoteB)) /\ IsError(stdout[1], ErrNotFound)
    /\ ValidAdd(stdin[2]) /\ AddName(stdin[2]) = NoteB
    /\ stdin[3] = stdin[1] /\ stdout[3].result = GoString(TextX)

\* the kind of failure of ReadResource(uri) on store: the URI does not
\* parse, its scheme is not "note", or no note has the name it addresses
FailureKind(uri, store) ==
    IF UrlParse(uri).err # << >> THEN "other"
    ELSE IF UrlParse(uri).Scheme # <<"note">> THEN "UnsupportedScheme"
    ELSE IF (IF UrlParse(uri).Path = << >> THEN << >> ELSE Tail(UrlParse(uri).Path)) \notin DOMAIN store
    THEN "NotFound"
    ELSE "none"

\* the error code the translation policy gives each kind of failure
CodeOf(kind) ==
    CASE kind = "NotFound" -> ErrNotFound
      [] kind = "UnsupportedScheme" -> ErrUnsupported
      [] OTHER -> ErrInternal

\* C17: the error code of a failed read_resource is the one of the kind of
\* the failure, whatever text the URI contains.
C17_ReadErrorCodeByKind ==
    (Handled /\ IsReadRequest(stdin[rd]) /\ FailureKind(UriOf(stdin[rd]), notes) # "none") =>
        IsError(EncodeResponse(response), CodeOf(FailureKind(UriOf(stdin[rd]), notes)))

\* -------------------------------------------------- claims about call_tool
\* msg is a call_tool request whose params are an object
IsToolCall(msg) == IsCall(msg, "call_tool") /\ msg.params.t = "obj"

\* msg names a tool: params.name is a non-empty string
NamesTool(msg) ==
    /\ "name" \in DOMAIN msg.params.m
    /\ msg.params.m["name"].t = "str"
    /\ msg.params.m["name"].s # << >>

\* C18: a call_tool request that is not an accepted add-note call fails; a
\* call_tool request that fails leaves the Store unchanged; the answer is
\* -32001 when it names a tool other than add-note, and -32602 when it names
\* add-note with a name or a content that is missing, not a string or empty,
\* or names no tool.
C18_FailedToolCallStoresNothing ==
    [][(Handling /\ IsToolCall(stdin[rd])) =>
          /\ ~ValidAdd(stdin[rd]) => response'.Error # Nil /\ response'.Result = Nil
          /\ response'.Error # Nil => notes' = notes
          /\ (NamesTool(stdin[rd]) /\ stdin[rd].params.m["name"].s # <<"add-note">>) =>
                /\ IsError(EncodeResponse(response'), ErrNotFound)
                /\ response'.Error.Message = "tool not found"
          /\ (NamesTool(stdin[rd]) /\ stdin[rd].params.m["name"].s = <<"add-note">>
                /\ ~ValidAdd(stdin[rd])) =>
                /\ IsError(EncodeResponse(response'), ErrInvalidParams)
                /\ response'.Error.Message = "invalid tool arguments"
          /\ ~NamesTool(stdin[rd]) => IsError(EncodeResponse(response'), ErrInvalidParams)]_vars

\* after note "a" was stored, an add-note for "b" with an empty content was
\* answered with -32602 and a call of another tool with -32001, and the Store
\* holds only "a"
C18_Witness ==
    /\ Len(stdout) = 3
    /\ stdout[1].result.t = "TextContents"
    /\ stdin[2].params = Call(<<"add-note">>, [name |-> JStr(NoteB), content |-> JStr(<< >>)])
    /\ IsError(stdout[2], ErrInvalidParams)
    /\ IsError(stdout[3], ErrNotFound)
    /\ DOMAIN notes = {NoteA}

\* C19: an accepted add-note(name, content) call sets Store[name] = content,
\* leaves every other entry as it was, and returns exactly one text item
\* "Added note '<name>' with content: <content>".
C19_AddNoteSetsOneEntry ==
    [][(Handling /\ IsToolCall(stdin[rd]) /\ ValidAdd(stdin[rd])) =>
          /\ DOMAIN notes' = DOMAIN notes \cup {AddName(stdin[rd])}
          /\ notes'[AddName(stdin[rd])] = AddContent(stdin[rd])
          /\ \A n \in DOMAIN notes \ {AddName(stdin[rd])} : notes'[n] = notes[n]
          /\ response'.Error = Nil
          /\ response'.Result.t = "TextContents"
          /\ Len(response'.Result.v) = 1
          /\ response'.Result.v[1] =
                [Type |-> "text",
                 Text |-> <<"Added note '">> \o AddName(stdin[rd])
                          \o <<"' with content: ">> \o AddContent(stdin[rd])]]_vars

\* "a" and "b" were stored with different contents and "a" was then
\* overwritten: three text items were returned
C19_Witness ==
    /\ Len(stdout) = 3
    /\ \A k \in 1..3 : stdout[k].result.t = "TextContents"
    /\ DOMAIN notes = {NoteA, NoteB}
    /\ notes[NoteA] = TextY /\ notes[NoteB] = TextY
    /\ AddContent(stdin[1]) = TextX

\* ------------------------------------------------- claims about get_prompt
\* msg is a get_prompt request that names a prompt and whose arguments, if
\* any, are an object of strings and nulls
IsPromptRequest(msg) ==
    /\ IsCall(msg, "get_prompt") /\ msg.params.t = "obj"
    /\ NamesTool(msg)
    /\ "arguments" \in DOMAIN msg.params.m =>
          /\ msg.params.m["arguments"].t = "obj"
          /\ \A k \in DOMAIN msg.params.m["arguments"].m :
                msg.params.m["arguments"].m[k].t \in {"str", "null"}

\* arguments.style of a prompt request, the empty text when it is not set
StyleOf(msg) ==
    IF /\ "arguments" \in DOMAIN msg.params.m
       /\ "style" \in DOMAIN msg.params.m["arguments"].m
       /\ msg.params.m["arguments"].m["style"].t = "str"
    THEN msg.params.m["arguments"].m["style"].s
    ELSE << >>

\* the text of the one message of the prompt result in response
PromptText == response.Result.Messages[1].Content.Text

\* C20: a get_prompt request for a prompt other than summarize-notes is
\* answered with -32001; for summarize-notes the answer is one user message
\* whose text is the base text, followed directly by the detail suffix if and
\* only if arguments.style is "detailed", followed by the blank line and one
\* line "- <name>: <content>" per note.
C20_PromptNameAndStyle ==
    (Handled /\ IsPromptRequest(stdin[rd])) =>
        IF stdin[rd].params.m["name"].s # <<"summarize-notes">>
        THEN /\ IsError(EncodeResponse(response), ErrNotFound)
             /\ response.Error.Message = "prompt not found"
        ELSE /\ response.Error = Nil
             /\ response.Result.t = "GetPromptResult"
             /\ Len(response.Result.Messages) = 1
             /\ response.Result.Messages[1].Role = "user"
             /\ PromptText[1] = "Here are the current notes to summarize:"
             /\ (PromptText[2] = Suffix[1]) <=> (StyleOf(stdin[rd]) = <<"detailed">>)
             /\ PromptText[IF StyleOf(stdin[rd]) = <<"detailed">> THEN 3 ELSE 2] = "\n\n"
             /\ Len(PromptText) = (IF StyleOf(stdin[rd]) = <<"detailed">> THEN 3 ELSE 2)
                                    + 5 * Cardinality(DOMAIN notes)
             /\ \A n \in DOMAIN notes :
                   \E i \in 1..(Len(PromptText) - 4) :
                       SubSeq(PromptText, i, i + 4) = <<"- ">> \o n \o <<": ">> \o notes[n] \o <<"\n">>

\* with a note stored whose content reads like the suffix, the prompt was
\* generated with style "detailed" and with another style
C20_Witness ==
    /\ Len(stdout) = 3
    /\ NoteB \in DOMAIN notes
    /\ stdout[1].result.t = "TextContents"
    /\ StyleOf(stdin[2]) = <<"detailed">>
    /\ stdout[2].result.t = "GetPromptResult"
    /\ stdout[2].result.Messages[1].Content.Text[2] = Suffix[1]
    /\ StyleOf(stdin[3]) = <<"Detailed">>
    /\ stdout[3].result.t = "GetPromptResult"
    /\ stdout[3].result.Messages[1].Content.Text[2] = "\n\n"

\* the notes list of the prompt text: what follows the blank line
PromptList ==
    SubSeq(PromptText, (IF PromptText[2] = "\n\n" THEN 2 ELSE 3) + 1, Len(PromptText))

\* the name on the j-th line of the notes list (a line is the five pieces
\* "- ", name, ": ", content, "\n")
LineName(j) == <<PromptList[5 * (j - 1) + 2]>>

\* C21: the notes list of the summarize-notes text is made of lines
\* "- <name>: <content>", one for each note the client has stored and none
\* for any other name; it is empty when nothing has been stored.
C21_PromptListsEveryNoteOnce ==
    (Handled /\ IsPromptRequest(stdin[rd])
        /\ stdin[rd].params.m["name"].s = <<"summarize-notes">>) =>
        /\ Len(PromptList) = 5 * Cardinality(DOMAIN Added(rd - 1))
        /\ \A j \in 1..Cardinality(DOMAIN Added(rd - 1)) :
              /\ LineName(j) \in DOMAIN Added(rd - 1)
              /\ SubSeq(PromptList, 5 * (j - 1) + 1, 5 * j)
                    = <<"- ">> \o LineName(j) \o <<": ">> \o Added(rd - 1)[LineName(j)] \o <<"\n">>
        /\ \A n \in DOMAIN Added(rd - 1) :
              Cardinality({j \in 1..Cardinality(DOMAIN Added(rd - 1)) : LineName(j) = n}) = 1

\* two notes were stored and the prompt was then generated with two lines
C21_Witness ==
    /\ pc = "encode"
    /\ Len(stdout) = 2
    /\ stdout[1].result.t = "TextContents" /\ stdout[2].result.t = "TextContents"
    /\ DOMAIN notes = {NoteA, NoteB}
    /\ response.Result.t = "GetPromptResult"
    /\ Len(PromptList) = 10

\* ---------------------------------------------- claims about the Store
\* C22: the Store changes only in the handling of an accepted add-note call
\* that is answered with a result; the handling of any other request, and of
\* any request answered with an error, leaves it unchanged; no step removes a
\* note.
C22_OnlyAddNoteChangesStore ==
    [][/\ notes' # notes =>
            /\ Handling
            /\ ValidAdd(stdin[rd])
            /\ response'.Error = Nil /\ response'.Result.t = "TextContents"
            /\ notes' = [n \in DOMAIN notes \cup {AddName(stdin[rd])} |->
                            IF n = AddName(stdin[rd]) THEN AddContent(stdin[rd]) ELSE notes[n]]
       /\ (Handling /\ (response'.Error # Nil \/ stdin[rd].method # "call_tool")) => notes' = notes
       /\ DOMAIN notes \subseteq DOMAIN notes']_vars

\* after a note was stored, an unknown method was answered with an error and
\* a read returned the note
C22_Witness ==
    /\ Len(stdout) = 3
    /\ stdout[1].result.t = "TextContents"
    /\ IsError(stdout[2], ErrMethodNotFound)
    /\ stdin[3].method = "read_resource" /\ stdout[3].result = GoString(TextX)
    /\ DOMAIN notes = {NoteA}

\* C23: every note in the Store has a non-empty name and a non-empty content.
C23_NotesNonEmpty ==
    \A n \in DOMAIN notes : n # << >> /\ notes[n] # << >>

\* a note was stored, and add-note calls with an empty name and with an
\* empty content were then rejected
C23_Witness ==
    /\ Len(stdout) = 3
    /\ stdout[1].result.t = "TextContents"
    /\ stdin[2].params = Call(<<"add-note">>, [name |-> JStr(<< >>), content |-> JStr(TextX)])
    /\ stdin[3].params = Call(<<"add-note">>, [name |-> JStr(NoteB), content |-> JStr(<< >>)])
    /\ IsError(stdout[2], ErrInvalidParams) /\ IsError(stdout[3], ErrInvalidParams)
    /\ DOMAIN notes = {NoteA}

\* ------------------------------------------------ claims about the loop
\* the decoded messages for which no response has been written
Unanswered == {k \in 1..rd : AnswersTo(k) = {}}

\* C24: at most one decoded message is without a response at any time, and
\* it is the one decoded last; while Run is running every earlier message
\* has its response on stdout; a message is decoded only when every message
\* before it has been answered, and never after Run has stopped.
C24_OneRequestAtATime ==
    /\ [](/\ Cardinality(Unanswered) <= 1
          /\ Unanswered \subseteq {rd}
          /\ pc # "stopped" => Len(stdout) = (IF pc \in {"handle", "encode"} THEN rd - 1 ELSE rd)
          /\ (pc \in {"handle", "encode"} /\ ~fatal) <=> req # NoReq)
    /\ [][rd' # rd => /\ pc = "decode"
                      /\ rd' = rd + 1
                      /\ Len(stdout) = rd
                      /\ Unanswered = {}]_vars

\* three messages are on stdin; the first is answered, the second is being
\* answered and the third waits
C24_Witness ==
    /\ Len(stdin) = 3 /\ rd = 2 /\ pc = "encode" /\ ~fatal
    /\ Len(stdout) = 1 /\ answered = <<1>>

\* C25: a cancellation does not interrupt the iteration it falls into: a
\* Decode that is in flight still yields its message, the message is handled
\* and its response written as without the cancellation; Run then stops at
\* the next check, so at most one response is written after the cancellation.
C25_CancellationIsCooperative ==
    /\ \A n \in 0..MaxMsgs :
          [](ctxDone /\ Len(stdout) = n => [](Len(stdout) <= n + 1))
    /\ [](\A k \in 1..Len(stdout) : Fits(stdin[k], stdout[k]))
    /\ [][ctxDone =>
            /\ (pc = "decode" /\ pc' # pc /\ rd < Len(stdin)) =>
                  (rd' = rd + 1 /\ pc' \in {"handle", "encode"} /\ ret' = "running")
            /\ (pc = "handle" /\ pc' # pc) => (pc' = "encode" /\ ret' = "running")
            /\ (pc = "encode" /\ pc' # pc /\ stdoutOK) =>
                  (Len(stdout') = Len(stdout) + 1 /\ pc' = (IF fatal THEN "stopped" ELSE "select"))
            /\ (pc = "select" /\ pc' # pc) => (pc' = "stopped" /\ ret' = "ctxErr")]_vars

\* the context is cancelled, the second message has been decoded and handled
\* and is about to be answered, and a third message waits on stdin
C25_Witness ==
    /\ ctxDone /\ pc = "encode" /\ ~fatal
    /\ rd = 2 /\ Len(stdout) = 1 /\ Len(stdin) = 3

\* ------------------------------------------ claims about the error codes
\* C28: a read_resource that fails because no note has the name answers
\* with error code 404, and one that fails because the scheme is not "note"
\* answers with error code 400, the codes of the handlers package comment.
C28_DocumentedCustomCodes ==
    (Handled /\ IsReadRequest(stdin[rd])) =>
        /\ FailureKind(UriOf(stdin[rd]), notes) = "NotFound" =>
              IsError(EncodeResponse(response), 404)
        /\ FailureKind(UriOf(stdin[rd]), notes) = "UnsupportedScheme" =>
              IsError(EncodeResponse(response), 400)

\* ----------------------------------------- claims about the service wrapper
\* C26: handleServiceCommand invokes exactly the operation the command names,
\* once, and returns an error exactly when that operation does; for any
\* other command it returns an error and invokes no operation.
C26_CommandInvokesNamedOperation ==
    cmdErr # Pending =>
        IF command \in Operations
        THEN /\ calls = <<command>>
             /\ (cmdErr # Nil) <=> (command \in failing)
        ELSE /\ calls = << >>
             /\ cmdErr # Nil

\* "restart" was given to a service whose Stop and Start fail and whose
\* Restart succeeds: Restart alone was invoked and no error returned
C26_Witness ==
    /\ command = "restart" /\ failing = {"stop", "start"}
    /\ calls = <<"restart">> /\ cmdErr = Nil

\* "Install" names no operation: an error is returned and nothing invoked
C26_WitnessInvalid ==
    /\ command = "Install" /\ failing = {}
    /\ calls = << >> /\ cmdErr = Errorf(<<"invalid command: ", "Install">>)

\* C27: Start returns nil as soon as it has started the goroutine, before
\* the loop has taken a step; Stop returns nil and leaves the loop where it
\* is; once Stop has returned the context is cancelled, and stays so.
C27_StartAndStopReturnNil ==
    /\ [](/\ startRet \in {Pending, Nil}
          /\ stopRet \in {Pending, Nil}
          /\ stopRet = Nil => ctxDone)
    /\ [][/\ startRet' # startRet =>
                /\ startRet' = Nil
                /\ runPc' = "spawned"
                /\ pc = "idle" /\ pc' = "idle"
          /\ stopRet' # stopRet =>
                /\ stopRet' = Nil
                /\ ctxDone'
                /\ UNCHANGED <<pc, runPc, rd, req, response, notes, stdout, ret>>
          /\ ctxDone => ctxDone']_vars

\* Stop has returned while the loop, having answered one message, is blocked
\* in Decode
C27_Witness ==
    /\ startRet = Nil /\ stopRet = Nil /\ ctxDone
    /\ runPc = "running" /\ pc = "decode" /\ Len(stdout) = 1 /\ rd = Len(stdin)

\* Stop has returned before the goroutine has entered Run
C27_WitnessNotYetRunning ==
    /\ stopRet = Nil /\ ctxDone /\ runPc = "spawned" /\ pc = "idle"

\* ------------------------------------------------ claims about the notes lock
\* C29: a caller that is about to read the note map holds the lock shared, a
\* caller that is about to write it holds the lock exclusively, and no
\* caller is about to access the map while another is about to write it.
C29_MapAccessUnderLock ==
    /\ rwLocked => (rwWriter # 0 /\ rwReaders = {})
    /\ \A c \in Callers :
          /\ AtRead(c) => (c \in rwReaders /\ ~rwLocked)
          /\ AtWrite(c) => (rwWriter = c /\ rwLocked /\ rwReaders = {})
          /\ AtWrite(c) => \A d \in Callers \ {c} : ~AtRead(d) /\ ~AtWrite(d)

\* a ReadResource is about to read the map while a CallTool that has called
\* Lock waits for it to leave
C29_Witness ==
    \E c, d \in Callers :
        /\ callOp[c].op = "ReadResource" /\ callPc[c] = "get"
        /\ callOp[d].op = "CallTool" /\ callPc[d] = "locking"
        /\ rwReaders = {c} /\ rwWriter = d /\ ~rwLocked

\* C30: a caller that writes a line to os.Stderr holds the notes lock neither
\* shared nor exclusively.
C30_NoIOUnderLock ==
    [][stderr' # stderr =>
          \A c \in Callers :
              callPc'[c] # callPc[c] => (c \notin rwReaders /\ rwWriter # c)]_vars

\* the entries caller c's range has visited are entries of the map
SeenIsCurrent(c) ==
    \A i \in DOMAIN callSeen[c] :
        /\ callSeen[c][i][1] \in DOMAIN notes
        /\ notes[callSeen[c][i][1]] = callSeen[c][i][2]

\* what caller c's ListResources or GetPrompt returns is what the operation
\* gives on the map as it is now, in some order of its entries
ReturnsCurrent(c) ==
    \E ord \in Orders(notes) :
        callRet[c] = IF callOp[c].op = "ListResources"
                     THEN [err |-> << >>, result |-> ListResources(notes, ord)]
                     ELSE GetPrompt(notes, ord, callOp[c].name, callOp[c].arguments)

\* caller c is in the part of ListResources or GetPrompt that reads the map
Snapshotting(c) ==
    /\ callOp[c].op \in {"ListResources", "GetPrompt"}
    /\ callPc[c] \in {"loglen", "range", "runlock"}

\* C31: from the moment ListResources or GetPrompt has the lock until it
\* releases it the map does not change, although add-note calls run beside
\* it: what the range has visited are entries of the map, and what the
\* operation returns is the map of the instant its range ended, names and
\* contents.
C31_ListAndPromptSeeOneSnapshot ==
    /\ [](\A c \in Callers :
            /\ (Snapshotting(c) /\ callPc[c] = "range") => SeenIsCurrent(c)
            /\ (Snapshotting(c) /\ callPc[c] = "runlock") => ReturnsCurrent(c))
    /\ [][(\E c \in Callers : Snapshotting(c)) => notes' = notes]_vars

\* a GetPrompt caller has rendered the note "a" and still holds the lock,
\* while an add-note for the same name with another content has called Lock
\* and waits
C31_Witness ==
    \E c, d \in Callers :
        /\ callOp[c].op = "GetPrompt" /\ callPc[c] = "runlock"
        /\ DOMAIN notes = {NoteA} /\ notes[NoteA] = TextX
        /\ callOp[d].op = "CallTool" /\ callPc[d] = "locking"
        /\ callOp[d].arguments["content"].s = TextY

\* caller c's add-note call was accepted and has executed its map write
Wrote(c) ==
    /\ callOp[c].op = "CallTool"
    /\ CallTool(EmptyMap, callOp[c].name, callOp[c].arguments).err = << >>
    /\ callPc[c] \in {"unlock", "after", "done"}

NameOf(c) == callOp[c].arguments["name"].s

ContentOf(c) == callOp[c].arguments["content"].s

\* C36: no accepted add-note is lost, however the calls interleave: once a
\* call has written, its name is in the Store, and the content stored under
\* it is the content of one of the calls that have written that name (its
\* own when no other call names it); and no entry ever leaves the Store.
C36_NoLostUpdate ==
    /\ [](\A c \in Callers :
            Wrote(c) =>
                /\ NameOf(c) \in DOMAIN notes
                /\ notes[NameOf(c)] \in {ContentOf(d) : d \in {e \in Callers : Wrote(e) /\ NameOf(e) = NameOf(c)}})
    /\ [][DOMAIN notes \subseteq DOMAIN notes']_vars

\* two add-note calls for different names have returned and both notes are
\* stored with their own content, on a server that started empty
C36_Witness ==
    \E c, d \in Callers :
        /\ callPc[c] = "done" /\ Wrote(c) /\ NameOf(c) = NoteA /\ ContentOf(c) = TextY
        /\ callPc[d] = "done" /\ Wrote(d) /\ NameOf(d) = NoteB
        /\ Len(stderr) = 4
        /\ notes = SetNote(SetNote(EmptyMap, NoteA, TextY), NoteB, TextY)

\* two add-note calls for the same name with different contents have
\* returned and the Store holds the content of the first of them
C36_WitnessSameName ==
    \E c, d \in Callers :
        /\ callPc[c] = "done" /\ Wrote(c) /\ NameOf(c) = NoteA /\ ContentOf(c) = TextX
        /\ callPc[d] = "done" /\ Wrote(d) /\ NameOf(d) = NoteA /\ ContentOf(d) = TextY
        /\ notes[NoteA] = TextX

\* ------------------------------------- claims about the handlers' validation
\* the params of msg are absent, or an object in which field is absent or
\* the empty string
Lacks(msg, field) ==
    \/ msg.params = JAbsent
    \/ /\ msg.params.t = "obj"
       /\ field \notin DOMAIN msg.params.m \/ msg.params.m[field] = JStr(<< >>)

\* msg gives a name and no arguments
OnlyNamed(msg) ==
    /\ msg.params.t = "obj"
    /\ DOMAIN msg.params.m = {"name"}
    /\ msg.params.m["name"].t = "str" /\ msg.params.m["name"].s # << >>

\* the calls of the registry among the calls made for the request
RegistryCalls == SelectSeq(invoked, LAMBDA call : call[1] # "handleRequest")

\* C32: read_resource without a uri or with an empty one, and get_prompt and
\* call_tool without a name or with an empty one, are answered with -32602
\* without a call of the registry and leave the Store as it was; get_prompt
\* and call_tool with a name and without arguments call the registry with
\* the name and an empty map.
C32_ValidationBeforeRegistry ==
    Handled =>
        /\ \A p \in {<<"read_resource", "uri">>, <<"get_prompt", "name">>, <<"call_tool", "name">>} :
              (IsCall(stdin[rd], p[1]) /\ Lacks(stdin[rd], p[2])) =>
                  /\ IsError(EncodeResponse(response), ErrInvalidParams)
                  /\ RegistryCalls = << >>
                  /\ notes = Added(rd - 1)
        /\ (IsCall(stdin[rd], "get_prompt") /\ OnlyNamed(stdin[rd])) =>
              RegistryCalls = << <<"GetPrompt", stdin[rd].params.m["name"].s, EmptyMap>> >>
        /\ (IsCall(stdin[rd], "call_tool") /\ OnlyNamed(stdin[rd])) =>
              RegistryCalls = << <<"CallTool", stdin[rd].params.m["name"].s, EmptyMap>> >>

\* with the note "a" stored, a call_tool with an empty tool name around
\* add-note arguments for "b" has been rejected without a call of the
\* registry, and the Store still holds "a" alone
C32_Witness ==
    /\ Handled /\ rd = 2
    /\ ValidAdd(stdin[1])
    /\ stdin[2].params = Call(<< >>, [name |-> JStr(NoteB), content |-> JStr(TextY)])
    /\ IsError(EncodeResponse(response), ErrInvalidParams)
    /\ invoked = << <<"handleRequest", "call_tool">> >>
    /\ DOMAIN notes = {NoteA}

\* a call_tool that names add-note and gives no arguments has reached the
\* registry with an empty map
C32_WitnessNoArguments ==
    /\ Handled
    /\ invoked = << <<"handleRequest", "call_tool">>, <<"CallTool", <<"add-note">>, EmptyMap>> >>
    /\ IsError(EncodeResponse(response), ErrInvalidParams)

\* ------------------------------------------ claims about the envelope checks
\* msg is decoded and fails an envelope check
BadEnvelope(msg) == Decodable(msg) /\ (msg.jsonrpc # "2.0" \/ msg.method = "")

\* C33: a decoded message whose version is not "2.0" or whose method is
\* empty is answered with -32600 without a call of the dispatcher or of the
\* registry, and the step that handles it leaves the Store as it was, also
\* when the message carries the params of an add-note call.
C33_RejectedEnvelopeNotDispatched ==
    /\ []((Handled /\ BadEnvelope(stdin[rd])) =>
            /\ invoked = << >>
            /\ IsError(EncodeResponse(response), ErrInvalidReq)
            /\ notes = Added(rd - 1))
    /\ []((Handled /\ ~BadEnvelope(stdin[rd])) =>
            (invoked # << >> /\ invoked[1] = <<"handleRequest", stdin[rd].method>>))
    /\ [][(Handling /\ BadEnvelope(stdin[rd])) => notes' = notes]_vars

\* with the note "a" stored, an add-note call for "b" under version "1.0"
\* has been rejected; no call was made and "b" is not stored
C33_Witness ==
    /\ Handled /\ rd = 2
    /\ ValidAdd(stdin[1]) /\ AddName(stdin[1]) = NoteA
    /\ stdin[2] = Req("1.0", JNum(0, 10), "call_tool", AddNote(NoteB, TextX))
    /\ invoked = << >>
    /\ IsError(EncodeResponse(response), ErrInvalidReq)
    /\ DOMAIN notes = {NoteA}

\* ------------------------------------------- claims about the empty name
\* C34: read_resource of a note URI whose path is empty or "/" asks the
\* registry for that URI; the name is empty, no note has it, and the answer
\* is -32001 "note not found" whatever has been stored.
C34_EmptyPathNotFound ==
    /\ \A uri \in EmptyPathURIs :
          /\ UrlParse(uri).err = << >>
          /\ UrlParse(uri).Scheme = <<"note">>
          /\ UrlParse(uri).Path \in {<< >>, <<"/">>}
    /\ (Handled /\ IsReadRequest(stdin[rd]) /\ UriOf(stdin[rd]) \in EmptyPathURIs) =>
          /\ invoked = << <<"handleRequest", "read_resource">>, <<"ReadResource", UriOf(stdin[rd])>> >>
          /\ IsError(EncodeResponse(response), ErrNotFound)
          /\ response.Error.Message = "note not found"
          /\ << >> \notin DOMAIN notes

\* an add-note under the empty name has been rejected, the note "internal"
\* has been stored, and the read of note://internal is answered with -32001
C34_Witness ==
    /\ Handled /\ rd = 3
    /\ stdin[1].params = AddNote(<< >>, TextX) /\ IsError(stdout[1], ErrInvalidParams)
    /\ DOMAIN notes = {<<"internal">>}
    /\ IsRead(stdin[3], <<"note", ":", "/", "/", "internal">>)
    /\ IsError(EncodeResponse(response), ErrNotFound)

\* --------------------------------------- claims about runs of the server
\* the lines of a text: each ends with its line-break token
RECURSIVE Lines(_, _)
Lines(text, i) ==
    IF text = << >> THEN << >>
    ELSE IF i > Len(text) THEN <<text>>
    ELSE IF text[i] \in {"\n", "\n\n"}
    THEN <<SubSeq(text, 1, i)>> \o Lines(SubSeq(text, i + 1, Len(text)), 1)
    ELSE Lines(text, i + 1)

\* how often x occurs in the sequence s
Count(s, x) == Cardinality({i \in DOMAIN s : s[i] = x})

\* t holds the elements of s, each as often, in some order
Permuted(s, t) ==
    /\ Len(s) = Len(t)
    /\ \A i \in DOMAIN s : Count(s, s[i]) = Count(t, s[i])

\* the text of the message of an encoded get_prompt result
TextOf(a) == a.result.Messages[1].Content.Text

\* two encoded responses are the same up to the order in which the notes
\* are listed: the resources of a listing, the note lines of a prompt
SameAnswer(a, b) ==
    \/ a = b
    \/ /\ a.result.t = "Resources" /\ b.result.t = "Resources"
       /\ a.jsonrpc = b.jsonrpc /\ a.id = b.id /\ a.error = b.error
       /\ Permuted(a.result.v, b.result.v)
    \/ /\ a.result.t = "GetPromptResult" /\ b.result.t = "GetPromptResult"
       /\ a.jsonrpc = b.jsonrpc /\ a.id = b.id /\ a.error = b.error
       /\ a.result.Description = b.result.Description
       /\ Len(a.result.Messages) = 1 /\ Len(b.result.Messages) = 1
       /\ a.result.Messages[1].Role = b.result.Messages[1].Role
       /\ a.result.Messages[1].Content.Type = b.result.Messages[1].Content.Type
       /\ Lines(TextOf(a), 1) # << >> /\ Lines(TextOf(b), 1) # << >>
       /\ Head(Lines(TextOf(a), 1)) = Head(Lines(TextOf(b), 1))
       /\ Permuted(Tail(Lines(TextOf(a), 1)), Tail(Lines(TextOf(b), 1)))

\* this run has a request that was answered with an error before the one
\* it handles now
RefusedBefore == \E k \in 1..(rd - 1) : k <= Len(stdout) /\ stdout[k].error # JAbsent

\* C35: a run that handles a request on the same Store contents as an
\* earlier run of the server handled the same request on, whatever requests
\* (accepted, rejected or failed) led either run there, gives the answer the
\* earlier run gave, up to the order in which the notes are listed.
C35_AnswerDependsOnRequestAndStoreOnly ==
    (Handled /\ earlier # NoRun /\ stdin[rd] = earlier.request /\ before = earlier.store) =>
        SameAnswer(EncodeResponse(response), earlier.answer)

\* the earlier run listed the note "a" after requests that were all
\* accepted; this run lists it on the same Store after a request that was
\* refused
C35_Witness ==
    /\ Handled /\ earlier # NoRun
    /\ stdin[rd] = earlier.request /\ before = earlier.store
    /\ DOMAIN before = {NoteA}
    /\ stdin[rd].method = "list_resources"
    /\ ~earlier.refused /\ RefusedBefore
    /\ EncodeResponse(response) = earlier.answer

\* both runs were asked for the prompt on a Store with the notes "a" and
\* "b", and they listed the notes in different orders
C35_WitnessOtherOrder ==
    /\ Handled /\ earlier # NoRun
    /\ stdin[rd] = earlier.request /\ before = earlier.store
    /\ DOMAIN before = {NoteA, NoteB}
    /\ stdin[rd].method = "get_prompt"
    /\ EncodeResponse(response) # earlier.answer

\* the first Run has returned, or waits in Decode for a message
PlainQuiet == pc = "stopped" \/ (pc = "decode" /\ rd = Len(stdin) /\ ~closed)

\* the second Run has returned, or waits in Decode for a message
TwinQuiet == mx.pc = "stopped" \/ (mx.pc = "decode" /\ mx.rd = Len(stdin) /\ ~closed)

\* C37: run on the same input stream, with the same cancellation timing and
\* the same write-failure point, the Run without and the Run with the stdout
\* mutex write the same responses in the same order (up to the order in
\* which a listing shows the notes); once neither can go on without further
\* input they have consumed the same messages, written as many responses,
\* left the same Store and returned the same kind of outcome, or both not
\* returned; and the second Run never finds its mutex held.
C37_RunVariantsEquivalent ==
    /\ \A k \in 1..Len(stdout) : k <= Len(mx.stdout) => SameAnswer(stdout[k], mx.stdout[k])
    /\ (PlainQuiet /\ TwinQuiet) =>
          /\ rd = mx.rd
          /\ Len(stdout) = Len(mx.stdout)
          /\ notes = mx.notes
          /\ ret = mx.ret
    /\ mx.pc = "lock" => ~mx.stdoutMutex

\* both have stored a note and answered, and both have returned the encode
\* error for the response that stdout refused
C37_Witness ==
    /\ pc = "stopped" /\ mx.pc = "stopped"
    /\ ret = "encodeErr" /\ mx.ret = "encodeErr"
    /\ Len(stdout) >= 1 /\ Len(mx.stdout) >= 1
    /\ DOMAIN notes = {NoteA} /\ DOMAIN mx.notes = {NoteA}

\* both have listed two notes, in different orders, and have returned the
\* context's error
C37_WitnessCancelled ==
    /\ pc = "stopped" /\ mx.pc = "stopped"
    /\ ret = "ctxErr" /\ mx.ret = "ctxErr"
    /\ Len(stdout) = 3 /\ stdout[3].result.t = "Resources"
    /\ stdout[3] # mx.stdout[3]

\* both have answered a message that is not JSON with the parse error and
\* returned the decode error
C37_WitnessParseError ==
    /\ pc = "stopped" /\ mx.pc = "stopped"
    /\ ret = "decodeErr" /\ mx.ret = "decodeErr"
    /\ Len(stdout) = 2 /\ IsError(stdout[2], ErrParse) /\ stdout = mx.stdout

====
